---- MODULE Spec2Model ----
(***************************************************************************)
(* State-machine model of the accelerometer drivers in                     *)
(* klippy/extras/adxl345.py (class ADXL345, class ADXL345Results) and      *)
(* klippy/extras/lis2dw.py (class LIS2DW).                                 *)
(*                                                                         *)
(* A raw block is modelled by its extended sequence number and the length  *)
(* of its payload in bytes; the payload bytes themselves do not influence  *)
(* the session bookkeeping.  Python exceptions are modelled by the "err"   *)
(* field of the record an operation returns: once it is set, the rest of   *)
(* the operation is skipped, as when the exception propagates.             *)
(***************************************************************************)
EXTENDS Integers, Sequences, FiniteSets, TLC

VARIABLES
    config_chip,      \* the driver the configuration section loads
    query_rate,       \* ADXL345.query_rate (0 = not measuring)
    last_tx_time,     \* ADXL345.last_tx_time
    raw_samples,      \* ADXL345.raw_samples: sequence of [seq, len]
    last_sequence,    \* ADXL345.last_sequence
    samples_start1,   \* ADXL345.samples_start1
    samples_start2,   \* ADXL345.samples_start2
    regs,             \* contents of the chip's registers
    devid,            \* value the chip answers for REG_DEVID
    sent_cmds,        \* query_adxl345 commands sent to the firmware, in order
    fw_seq,           \* firmware: blocks pushed since the last start command
    fw_events,        \* firmware: pushes (blocks, runs of lost blocks) since then
    true_last,        \* true block count of the last block handled
    mono_ok,          \* arrivals since the reset kept every gap below 2^16
    wf,               \* every block handled since the reset was a firmware
                      \* block of this session, delivered once
    lis_regs,         \* LIS2DW: contents of the chip's registers
    lis_devid,        \* LIS2DW: value the chip answers for WHO_AM_I
    lis_queue,        \* LIS2DW: blocks pending in bulk_queue
    lis_running,      \* LIS2DW: the firmware streams (last query_lis2dw
                      \* command had a non-zero rest_ticks)
    lis_batch,        \* LIS2DW: what the last batch cycle did and published
    cmd_pc,           \* the g-code command that is paused in the reactor
    query_elapsed,    \* time since ACCELEROMETER_QUERY began to poll
    calibrated,       \* ADXL345EndstopWrapper.calibrated
    pending,          \* reactor callbacks registered by calibrate, in order
    inverted,         \* ADXL345EndstopWrapper.inverted
    cal_op,           \* what the last step of a calibration decided
    axes_cfg,         \* the axes_map option of the configuration section
    axes_map,         \* ADXL345.axes_map: sequence of [pos, sign]
    config_err,       \* the error ADXL345.__init__ raised
    dec_raw,          \* blocks handed to a decoder: sequence of [seq, len]
    dec_out,          \* what the decoder made of them
    dec_bytes,        \* the two bytes (low, high) of an axis in a payload
    exports,          \* processes started by write_to_file, in order
    last_op           \* what the last operation did (name, error, result,
                      \* bus accesses, commands) and the state it started in

vars == <<config_chip, query_rate, last_tx_time, raw_samples, last_sequence,
          samples_start1, samples_start2, regs, devid,
          sent_cmds, fw_seq, fw_events, true_last, mono_ok, wf,
          lis_regs, lis_devid, lis_queue, lis_running, lis_batch,
          cmd_pc, query_elapsed, calibrated, pending, inverted, cal_op,
          axes_cfg, axes_map, config_err, dec_raw, dec_out, dec_bytes,
          exports,
          last_op>>

session == <<query_rate, last_tx_time, raw_samples, last_sequence,
             samples_start1, samples_start2>>

\* everything of the ADXL345, its chip and its firmware but last_op
adxl == <<config_chip, session, regs, devid, sent_cmds, fw_seq, fw_events, true_last,
          mono_ok, wf>>

lis == <<config_chip, lis_regs, lis_devid, lis_queue, lis_running, lis_batch>>

cmd == <<cmd_pc, query_elapsed>>

probe == <<calibrated, pending, inverted, cal_op>>

config == <<axes_cfg, axes_map, config_err>>

decoder == <<dec_raw, dec_out, dec_bytes>>

\* what the operations of a measurement session leave alone
extras == <<cmd, probe, config, decoder, exports>>

-----------------------------------------------------------------------------
(* Program constants *)

REG_DEVID == 0
REG_BW_RATE == 44
REG_POWER_CTL == 45
REG_DATA_FORMAT == 49
REG_FIFO_CTL == 56
REG_THRESH_TAP == 29
\* the REG parameter of the debug commands: minval, maxval
DebugRegMin == 29
DebugRegMax == 57
REG_OFSX == 30
REG_OFSY == 31
REG_OFSZ == 32
REG_DUR == 33
REG_TAP_AXES == 42
REG_INT_ENABLE == 46
REG_INT_MAP == 47
REG_INT_SOURCE == 48
ADXL345_DEV_ID == 229
SAMPLES_PER_BLOCK == 8
BYTES_PER_SAMPLE == 6
SEQ_MODULUS == 65536
DataRate == 3200
\* cmd_ACCELEROMETER_QUERY: the length of a pause and the time after which
\* it gives up, in tenths of a second
QueryPause == 1
QueryWindow == 30
\* ADXL345EndstopWrapper: the int_map of int_pin 'int1', and the register
\* bytes of the default tap_thresh (5000 mm/s^2) and tap_dur (0.01 s)
IntMap == 0
TapThreshReg == 8
TapDurReg == 16
\* the default tap_thresh, in mm/s^2
TAP_THRESH == 5000
\* calibrate's default retries
DefaultRetries == 3
\* abs(meas - FREEFALL_ACCEL) > FREEFALL_ACCEL * 0.5 for a mean vector of
\* whole mm/s^2, on the square of its length: FREEFALL_ACCEL is 9806.65,
\* the squares of its half and of its 1.5-fold are 24042596.06 and
\* 216383364.50
GravityLowSq == 24042596
GravityHighSq == 216383364
\* SCALE / OFS_SCALE / SCALE = 1 / 152.98374, as a fraction
OfsNum == 50000
OfsDen == 7649187
\* _try_clear_tap's tries
ClearTapTries == 8
REG_LIS2DW_WHO_AM_I_ADDR == 15
REG_LIS2DW_CTRL_REG1_ADDR == 32
REG_LIS2DW_CTRL_REG6_ADDR == 37
REG_LIS2DW_FIFO_CTRL == 46
LIS2DW_DEV_ID == 68
LIS_BYTES_PER_SAMPLE == 6
LIS_SAMPLES_PER_BLOCK == 8

QUERY_RATES ==
    (25 :> 8) @@ (50 :> 9) @@ (100 :> 10) @@ (200 :> 11) @@ (400 :> 12)
    @@ (800 :> 13) @@ (1600 :> 14) @@ (3200 :> 15)

-----------------------------------------------------------------------------
(* Bounds of the model *)

\* Capacity of the raw-block buffer.  The code's cap is 300000 blocks
\* (adxl345.py:482); the model keeps the comparison and scales the number.
MaxRawSamples == 2
\* Largest print time the toolhead reports, and largest firmware clock.
MaxPrintTime == 2
\* Longest log of firmware commands.
MaxCmds == 3
\* Most blocks of a batch handed to a decoder.
MaxBatch == 2
\* Longest log of firmware commands in the runs of the calibration.
MaxCalCmds == 9
\* Most pushes (a block, or a run of lost blocks) of the firmware per session.
MaxBlocks == 3
\* Largest limit_count the firmware reports.
MaxLimitCount == 1
\* Most blocks pending in the LIS2DW's bulk queue.
MaxLisQueue == 2

-----------------------------------------------------------------------------
(* Helpers *)

RECURSIVE BitAnd(_, _)
\* Python's & on non-negative integers.
BitAnd(a, b) ==
    IF a = 0 \/ b = 0 THEN 0
    ELSE (a % 2) * (b % 2) + 2 * BitAnd(a \div 2, b \div 2)

RECURSIVE BitOr(_, _)
\* Python's | on non-negative integers.
BitOr(a, b) ==
    IF a = 0 THEN b
    ELSE IF b = 0 THEN a
    ELSE (IF a % 2 = 1 \/ b % 2 = 1 THEN 1 ELSE 0)
            + 2 * BitOr(a \div 2, b \div 2)

\* Python's << on non-negative integers.
ShiftLeft(a, k) == a * 2 ^ k

RECURSIVE SumSamples(_)
\* sum([len(data)//6 for _, data in raw_samples])
SumSamples(raw) ==
    IF raw = <<>> THEN 0
    ELSE (Head(raw).len \div BYTES_PER_SAMPLE) + SumSamples(Tail(raw))

-----------------------------------------------------------------------------
(* Configuration.  An option value is the sequence of its characters; the  *)
(* axes_map option is kept as the list of the pieces between its commas.   *)

RECURSIVE lstrip(_)
\* str.strip(), its left half
lstrip(str) ==
    IF str # <<>> /\ Head(str) = " " THEN lstrip(Tail(str)) ELSE str

RECURSIVE rstrip(_)
\* str.strip(), its right half
rstrip(str) ==
    IF str # <<>> /\ str[Len(str)] = " "
    THEN rstrip(SubSeq(str, 1, Len(str) - 1))
    ELSE str

strip(str) == rstrip(lstrip(str))

\* am in ADXL345.__init__: the raw axis an axis name reads and the sign of
\* its scale
am ==
    (<<"x">> :> [pos |-> 0, sign |-> 1]) @@
    (<<"y">> :> [pos |-> 1, sign |-> 1]) @@
    (<<"z">> :> [pos |-> 2, sign |-> 1]) @@
    (<<"-", "x">> :> [pos |-> 0, sign |-> -1]) @@
    (<<"-", "y">> :> [pos |-> 1, sign |-> -1]) @@
    (<<"-", "z">> :> [pos |-> 2, sign |-> -1])

\* The default of the axes_map option, 'x,y,z'.
DefaultAxes == << <<"x">>, <<"y">>, <<"z">> >>

\* ADXL345.__init__ on the pieces of the axes_map option: the map it
\* stores, or the configuration error it raises.
read_axes_map(pieces) ==
    IF Len(pieces) # 3
          \/ \E i \in 1 .. Len(pieces) : strip(pieces[i]) \notin DOMAIN am
    THEN [err |-> "config_error", axes_map |-> <<>>]
    ELSE [err |-> "none",
          axes_map |-> [i \in 1 .. 3 |-> am[strip(pieces[i])]]]

-----------------------------------------------------------------------------
(* The register bus.  A context carries the chip's registers through one   *)
(* operation, with the bus accesses made so far, the number of set_reg     *)
(* calls made, the ordinal of the set_reg call whose read-back will not    *)
(* match (0: none) and the exception raised, if any.                       *)

Regs == {REG_BW_RATE, REG_POWER_CTL, REG_DATA_FORMAT, REG_FIFO_CTL,
         REG_THRESH_TAP, REG_OFSX, REG_OFSY, REG_OFSZ, REG_DUR,
         REG_TAP_AXES, REG_INT_ENABLE, REG_INT_MAP}

NewCtx(bad) ==
    [regs |-> regs, spi |-> <<>>, nset |-> 0, bad |-> bad, err |-> "none"]

\* The byte a read of register reg returns.
RegValue(ctx, reg) == IF reg = REG_DEVID THEN devid ELSE ctx.regs[reg]

read_reg(ctx, reg) ==
    IF ctx.err # "none" THEN ctx
    ELSE [ctx EXCEPT !.spi = Append(@, [op |-> "read", reg |-> reg,
                                        val |-> RegValue(ctx, reg)])]

\* A set_reg that would skip the read-back.
set_reg_unverified(ctx, reg, val) ==
    IF ctx.err # "none" THEN ctx
    ELSE [ctx EXCEPT !.nset = @ + 1,
                     !.regs = [@ EXCEPT ![reg] = BitAnd(val, 255)],
                     !.spi = @ \o <<[op |-> "write", reg |-> reg,
                                     val |-> BitAnd(val, 255)]>>]

set_reg(ctx, reg, val) ==
    IF ctx.err # "none" THEN ctx
    ELSE LET n == ctx.nset + 1
             \* the write reaches the chip unless this is the faulty access
             stored == IF n = ctx.bad THEN ctx.regs
                       ELSE [ctx.regs EXCEPT ![reg] = BitAnd(val, 255)]
             \* stored_val = self.read_reg(reg); on the faulty access the
             \* byte read back is some other byte
             stored_val == IF n = ctx.bad THEN (val + 1) % 256
                           ELSE stored[reg]
         IN  [ctx EXCEPT
                !.nset = n,
                !.regs = stored,
                !.spi = @ \o <<[op |-> "write", reg |-> reg,
                                val |-> BitAnd(val, 255)],
                               [op |-> "read", reg |-> reg,
                                val |-> stored_val]>>,
                !.err = IF stored_val # val THEN "set_reg_failed"
                        ELSE "none"]

\* printer.command_error raised for a chip that does not answer as expected
IsConnectivityError(e) == e \in {"invalid_id", "set_reg_failed"}

is_initialized_value(ctx) ==
    /\ RegValue(ctx, REG_DEVID) = ADXL345_DEV_ID
    /\ BitAnd(RegValue(ctx, REG_DATA_FORMAT), 11) # 0

\* The reads is_initialized makes: the second only when the first matched.
is_initialized_ctx(ctx) ==
    LET c1 == read_reg(ctx, REG_DEVID)
    IN  IF RegValue(ctx, REG_DEVID) = ADXL345_DEV_ID
        THEN read_reg(c1, REG_DATA_FORMAT)
        ELSE c1

\* An initialize that would read the identity and not compare it.
initialize_noverify(ctx) ==
    LET c1 == set_reg(ctx, REG_POWER_CTL, 0)
        c2 == read_reg(c1, REG_DEVID)
    IN  set_reg(c2, REG_DATA_FORMAT, 11)

initialize(ctx) ==
    LET c1 == set_reg(ctx, REG_POWER_CTL, 0)
        c2 == read_reg(c1, REG_DEVID)
        c3 == IF c2.err = "none" /\ RegValue(c2, REG_DEVID) # ADXL345_DEV_ID
              THEN [c2 EXCEPT !.err = "invalid_id"]
              ELSE c2
    IN  set_reg(c3, REG_DATA_FORMAT, 11)

-----------------------------------------------------------------------------
(* ADXL345Results *)

\* ADXL345Results.__init__: raw_samples None, no samples, no total_count
\* attribute yet.
NewResults ==
    [has_raw |-> FALSE, raw_samples |-> <<>>, drops |-> 0, overflows |-> 0,
     has_total |-> FALSE, total_count |-> 0,
     start2_time |-> 0, end2_time |-> 0]

\* setup_data on a fresh result.  Returns the result object as the call
\* leaves it and the exception it raises, if any.
setup_data(raw, end_sequence, overflows, start2_time, end2_time) ==
    IF raw = <<>> \/ end_sequence = 0
    THEN [res |-> NewResults, err |-> "none"]
    ELSE LET total_count == (end_sequence - 1) * SAMPLES_PER_BLOCK
                            + (raw[Len(raw)].len \div BYTES_PER_SAMPLE)
             actual_count == SumSamples(raw)
             r1 == [NewResults EXCEPT !.has_raw = TRUE,
                                      !.raw_samples = raw,
                                      !.overflows = overflows,
                                      !.start2_time = start2_time,
                                      !.end2_time = end2_time,
                                      !.has_total = TRUE,
                                      !.total_count = total_count]
         IN  IF total_count = 0
             THEN \* total_time / self.total_count
                  [res |-> r1, err |-> "ZeroDivisionError"]
             ELSE [res |-> [r1 EXCEPT !.drops = total_count - actual_count],
                   err |-> "none"]

\* decode_samples: the number of samples it returns, one per whole 6-byte
\* group of every buffered block.
decode_samples_count(res) ==
    IF ~res.has_raw THEN 0 ELSE SumSamples(res.raw_samples)

\* decode_samples stores into a list of total_count entries: storing more
\* than that raises IndexError.
decode_samples_err(res) ==
    IF res.has_raw /\ SumSamples(res.raw_samples) > res.total_count
    THEN "IndexError" ELSE "none"

-----------------------------------------------------------------------------
(* ADXL345: the measurement session *)

is_measuring == query_rate > 0

\* A conversion that would never add 0x10000.
convert_sequence_nowrap(last, sequence) ==
    (last - (last % SEQ_MODULUS)) + sequence

\* (last_sequence & ~0xffff) | sequence, then + 0x10000 when that is below
\* last_sequence.  sequence is a 16-bit field, so the or is an addition.
\* _convert_sequence computes it, and _handle_adxl345_data does inline.
convert_sequence(last, sequence) ==
    LET candidate == (last - (last % SEQ_MODULUS)) + sequence
    IN  IF candidate < last THEN candidate + SEQ_MODULUS ELSE candidate

\* A handler that would append at any length of the buffer.
handle_data_nocap(last, raw, sequence, len) ==
    LET ext == convert_sequence(last, sequence)
    IN  [last_sequence |-> ext,
         raw_samples |-> Append(raw, [seq |-> ext, len |-> len])]

\* A handler that would leave last_sequence alone when it discards.
handle_data_skip_update(last, raw, sequence, len) ==
    LET ext == convert_sequence(last, sequence)
    IN  IF Len(raw) >= MaxRawSamples
        THEN [last_sequence |-> last, raw_samples |-> raw]
        ELSE [last_sequence |-> ext,
              raw_samples |-> Append(raw, [seq |-> ext, len |-> len])]

\* _handle_adxl345_data on (last_sequence, raw_samples): a block is kept
\* as its extended sequence and the length in bytes of its data.
handle_data(last, raw, sequence, len) ==
    LET ext == convert_sequence(last, sequence)
    IN  [last_sequence |-> ext,
         raw_samples |-> IF Len(raw) >= MaxRawSamples
                         THEN raw
                         ELSE Append(raw, [seq |-> ext, len |-> len])]

\* The session as the running operation finds it.
SessionNow ==
    [query_rate |-> query_rate, last_tx_time |-> last_tx_time,
     raw_samples |-> raw_samples, last_sequence |-> last_sequence,
     samples_start1 |-> samples_start1, samples_start2 |-> samples_start2]

\* What start_measurements leaves behind: the session S, the bus context
\* ctx it ended with, the commands it sent and the exception it raised.
StartOutcome(S, ctx, cmds, err) ==
    [query_rate |-> S.query_rate, last_tx_time |-> S.last_tx_time,
     raw_samples |-> S.raw_samples, last_sequence |-> S.last_sequence,
     samples_start1 |-> S.samples_start1,
     samples_start2 |-> S.samples_start2,
     regs |-> ctx.regs, spi |-> ctx.spi, cmds |-> cmds, err |-> err,
     ctx |-> [ctx EXCEPT !.err = err]]

\* A start that would keep the blocks that are in the buffer.
start_from_keep(S, ctx, rate, t) ==
    IF ctx.err # "none" THEN StartOutcome(S, ctx, <<>>, ctx.err)
    ELSE IF S.query_rate > 0 THEN StartOutcome(S, ctx, <<>>, "none")
    ELSE
    LET r  == IF rate = 0 THEN DataRate ELSE rate
        c1 == is_initialized_ctx(ctx)
        c2 == IF is_initialized_value(ctx) THEN c1 ELSE initialize(c1)
        c3 == set_reg(c2, REG_POWER_CTL, 0)
        c4 == set_reg(c3, REG_FIFO_CTL, 0)
        c5 == IF c4.err # "none" THEN c4
              ELSE IF r \notin DOMAIN QUERY_RATES
              THEN [c4 EXCEPT !.err = "KeyError"]
              ELSE set_reg(c4, REG_BW_RATE, QUERY_RATES[r])
        c6 == set_reg(c5, REG_FIFO_CTL, 128)
    IN  IF c6.err # "none" THEN StartOutcome(S, c6, <<>>, c6.err)
        ELSE StartOutcome([query_rate |-> r, last_tx_time |-> t,
                           raw_samples |-> S.raw_samples,
                           last_sequence |-> 0,
                           samples_start1 |-> t, samples_start2 |-> t],
                          c6, <<"start">>, "none")

\* start_measurements(rate) called with the session S, on a bus that has
\* served the accesses of ctx in this operation.  rate = 0 stands for None;
\* t is the print time the toolhead reports.
start_from(S, ctx, rate, t) ==
    IF ctx.err # "none" THEN StartOutcome(S, ctx, <<>>, ctx.err)
    ELSE IF S.query_rate > 0 THEN StartOutcome(S, ctx, <<>>, "none")
    ELSE
    LET r  == IF rate = 0 THEN DataRate ELSE rate
        c1 == is_initialized_ctx(ctx)
        c2 == IF is_initialized_value(ctx) THEN c1 ELSE initialize(c1)
        c3 == set_reg(c2, REG_POWER_CTL, 0)
        c4 == set_reg(c3, REG_FIFO_CTL, 0)
        \* QUERY_RATES[rate] raises KeyError for a rate that is no key
        c5 == IF c4.err # "none" THEN c4
              ELSE IF r \notin DOMAIN QUERY_RATES
              THEN [c4 EXCEPT !.err = "KeyError"]
              ELSE set_reg(c4, REG_BW_RATE, QUERY_RATES[r])
        c6 == set_reg(c5, REG_FIFO_CTL, 128)
    IN  IF c6.err # "none" THEN StartOutcome(S, c6, <<>>, c6.err)
        ELSE StartOutcome([query_rate |-> r, last_tx_time |-> t,
                           raw_samples |-> <<>>, last_sequence |-> 0,
                           samples_start1 |-> t, samples_start2 |-> t],
                          c6, <<"start">>, "none")

\* A start that would not return early when Measuring.
start_measurements_noguard(rate, t, bad) ==
    start_from([SessionNow EXCEPT !.query_rate = 0], NewCtx(bad), rate, t)

\* start_measurements(rate) as an operation of its own; bad is the ordinal
\* of the ill-fated set_reg call.
start_measurements(rate, t, bad) ==
    start_from(SessionNow, NewCtx(bad), rate, t)

\* A finish that would leave query_rate set.
finish_keep_measuring(last, raw, t, params) ==
    LET end_sequence == convert_sequence(last, params.sequence)
        sd == setup_data(raw, end_sequence, params.limit_count,
                         samples_start2, params.end2_clock)
        err == IF sd.err # "none" THEN sd.err
               ELSE IF ~sd.res.has_total THEN "AttributeError"
               ELSE "none"
    IN  [query_rate |-> query_rate, last_tx_time |-> t,
         raw_samples |-> <<>>, last_sequence |-> last,
         cmds |-> <<"stop">>, err |-> err,
         returned |-> (err = "none"), res |-> sd.res]

\* The body of finish_measurements once the session is known to be
\* measuring: last and raw are last_sequence and raw_samples when the
\* adxl345_end response is handled, params is that response.
finish_body(last, raw, t, params) ==
    LET end_sequence == convert_sequence(last, params.sequence)
        sd == setup_data(raw, end_sequence, params.limit_count,
                         samples_start2, params.end2_clock)
        \* logging.info(..., res.total_count, ...) reads an attribute that
        \* setup_data sets only when it does not return early
        err == IF sd.err # "none" THEN sd.err
               ELSE IF ~sd.res.has_total THEN "AttributeError"
               ELSE "none"
    IN  [query_rate |-> 0, last_tx_time |-> t,
         raw_samples |-> <<>>, last_sequence |-> last,
         cmds |-> <<"stop">>, err |-> err,
         returned |-> (err = "none"), res |-> sd.res]

\* A finish that would not return early when Idle.
finish_noguard(last, raw, t, params) == finish_body(last, raw, t, params)

finish_measurements(last, raw, t, params) ==
    IF ~is_measuring
    THEN [query_rate |-> query_rate, last_tx_time |-> last_tx_time,
          raw_samples |-> raw_samples, last_sequence |-> last_sequence,
          cmds |-> <<>>, err |-> "none",
          returned |-> TRUE, res |-> NewResults]
    ELSE finish_body(last, raw, t, params)

-----------------------------------------------------------------------------
(* ADXL345EndstopWrapper: calibration and the probe's hooks.  The mean of   *)
(* the samples of an attempt is a vector of whole mm/s^2, their noise a     *)
(* whole number of mm/s^2.                                                  *)

\* calibrate up to its register_callback, from the session S and the bus
\* context ctx: the registers of the tap detection, the three offset
\* registers, then start_measurements() at the default rate.
calibrate_from(S, ctx, t) ==
    LET c1 == is_initialized_ctx(ctx)
        c2 == IF is_initialized_value(ctx) THEN c1 ELSE initialize(c1)
        c3 == set_reg(c2, REG_POWER_CTL, 0)
        c4 == IF inverted THEN set_reg(c3, REG_DATA_FORMAT, 43) ELSE c3
        c5 == set_reg(c4, REG_INT_MAP, IntMap)
        c6 == set_reg(c5, REG_TAP_AXES, 7)
        c7 == set_reg(c6, REG_THRESH_TAP, TapThreshReg)
        c8 == set_reg(c7, REG_DUR, TapDurReg)
        c9 == set_reg(c8, REG_OFSX, 0)
        c10 == set_reg(c9, REG_OFSY, 0)
        c11 == set_reg(c10, REG_OFSZ, 0)
    IN  start_from(S, c11, 0, t)

\* A calibrate that would register its callback before it touches the chip.
calibrate_schedules_always(err) == TRUE

\* calibrate reaches its register_callback only if nothing before raised.
calibrate_schedules(err) == err = "none"

\* The gravity check passes: the length of the mean is within half of
\* FREEFALL_ACCEL of it.
gravity_ok(mean) ==
    LET ss == mean[1] * mean[1] + mean[2] * mean[2] + mean[3] * mean[3]
    IN  ~(ss <= GravityLowSq \/ ss > GravityHighSq)

\* A noise check that would let a noise one above tap_thresh pass.
noise_ok_loose(noise) == ~(noise > TAP_THRESH + 1)

\* The noise check passes.
noise_ok(noise) == ~(noise > TAP_THRESH)

\* A retry policy that would retry once more at a budget of 0.
may_retry_at_zero(retries) == retries >= 0

\* if retries > 0
may_retry(retries) == retries > 0

\* round(a / b) for b > 0, odd
RoundDiv(a, b) == (2 * a + b) \div (2 * b)

\* 0xFF & int(round(-ofs / scale * (SCALE / OFS_SCALE)))
offset_value(ofs, sign) == RoundDiv((0 - ofs) * sign * OfsNum, OfsDen) % 256

ofs_regs == <<REG_OFSX, REG_OFSY, REG_OFSZ>>

\* The loop that writes the offsets of the three axes.
RECURSIVE write_offsets(_, _, _)
write_offsets(ctx, mean, axis) ==
    IF axis > 3 THEN ctx
    ELSE write_offsets(set_reg(ctx, ofs_regs[axes_map[axis].pos + 1],
                               offset_value(mean[axis], axes_map[axis].sign)),
                       mean, axis + 1)

\* A read of REG_INT_SOURCE that returns val.
read_int_source(ctx, val) ==
    IF ctx.err # "none" THEN ctx
    ELSE [ctx EXCEPT !.spi = @ \o <<[op |-> "read", reg |-> REG_INT_SOURCE,
                                     val |-> val]>>]

\* The byte the chip answers for REG_INT_SOURCE while taps more reads find
\* the tap flag set.
int_source(taps) == IF taps > 0 THEN 64 ELSE 0

\* _try_clear_tap: reads REG_INT_SOURCE until the tap flag is clear, at
\* most tries times; raises the caller's error when it never is.
RECURSIVE try_clear_tap(_, _, _)
try_clear_tap(ctx, taps, tries) ==
    IF ctx.err # "none" THEN ctx
    ELSE IF tries = 0 THEN [ctx EXCEPT !.err = "tap_triggered"]
    ELSE LET c == read_int_source(ctx, int_source(taps))
         IN  IF BitAnd(int_source(taps), 64) = 0 THEN c
             ELSE try_clear_tap(c, taps - 1, tries - 1)

\* probe_prepare after its test of calibrated.
probe_prepare_body(ctx, taps) ==
    LET c1 == is_initialized_ctx(ctx)
        c2 == IF is_initialized_value(ctx) THEN c1 ELSE initialize(c1)
        c3 == set_reg(c2, REG_INT_ENABLE, 0)
        c4 == read_int_source(c3, int_source(taps))
        c5 == set_reg(c4, REG_INT_ENABLE, 64)
        c6 == IF ~is_measuring THEN set_reg(c5, REG_POWER_CTL, 8) ELSE c5
    IN  try_clear_tap(c6, IF taps > 0 THEN taps - 1 ELSE 0, ClearTapTries)

\* A probe_prepare that would not test calibrated.
probe_prepare_unchecked(ctx, taps) == probe_prepare_body(ctx, taps)

probe_prepare(ctx, taps) ==
    IF ~calibrated THEN [ctx EXCEPT !.err = "not_calibrated"]
    ELSE probe_prepare_body(ctx, taps)

probe_finish(ctx, taps) ==
    LET c1 == set_reg(ctx, REG_INT_ENABLE, 0)
        c2 == IF ~is_measuring THEN set_reg(c1, REG_POWER_CTL, 0) ELSE c1
    IN  try_clear_tap(c2, taps, ClearTapTries)

-----------------------------------------------------------------------------
(* LIS2DW: register bus and start/stop of the measurements *)

LisRegs == {REG_LIS2DW_CTRL_REG1_ADDR, REG_LIS2DW_CTRL_REG6_ADDR,
            REG_LIS2DW_FIFO_CTRL}

LisNewCtx(bad) ==
    [regs |-> lis_regs, spi |-> <<>>, nset |-> 0, bad |-> bad,
     err |-> "none"]

LisRegValue(ctx, reg) ==
    IF reg = REG_LIS2DW_WHO_AM_I_ADDR THEN lis_devid ELSE ctx.regs[reg]

lis_read_reg(ctx, reg) ==
    IF ctx.err # "none" THEN ctx
    ELSE [ctx EXCEPT !.spi = Append(@, [op |-> "read", reg |-> reg,
                                        val |-> LisRegValue(ctx, reg)])]

lis_set_reg(ctx, reg, val) ==
    IF ctx.err # "none" THEN ctx
    ELSE LET n == ctx.nset + 1
             stored == IF n = ctx.bad THEN ctx.regs
                       ELSE [ctx.regs EXCEPT ![reg] = BitAnd(val, 255)]
             stored_val == IF n = ctx.bad THEN (val + 1) % 256
                           ELSE stored[reg]
         IN  [ctx EXCEPT
                !.nset = n,
                !.regs = stored,
                !.spi = @ \o <<[op |-> "write", reg |-> reg,
                                val |-> BitAnd(val, 255)],
                               [op |-> "read", reg |-> reg,
                                val |-> stored_val]>>,
                !.err = IF stored_val # val THEN "set_reg_failed"
                        ELSE "none"]

\* A start of the LIS2DW that would read the identity and not compare it.
lis_start_noverify(bad) ==
    LET c0 == LisNewCtx(bad)
        c1 == lis_read_reg(c0, REG_LIS2DW_WHO_AM_I_ADDR)
        c3 == lis_set_reg(c1, REG_LIS2DW_CTRL_REG6_ADDR, 52)
        c4 == lis_set_reg(c3, REG_LIS2DW_FIFO_CTRL, 192)
        c5 == lis_set_reg(c4, REG_LIS2DW_CTRL_REG1_ADDR, 148)
    IN  IF c5.err # "none"
        THEN [regs |-> c5.regs, spi |-> c5.spi, cmds |-> <<>>,
              err |-> c5.err, queue |-> lis_queue, running |-> lis_running]
        ELSE [regs |-> c5.regs, spi |-> c5.spi,
              cmds |-> <<"start", "status">>, err |-> "none",
              queue |-> 0, running |-> TRUE]

\* LIS2DW._start_measurements
lis_start_measurements(bad) ==
    LET c0 == LisNewCtx(bad)
        c1 == lis_read_reg(c0, REG_LIS2DW_WHO_AM_I_ADDR)
        c2 == IF LisRegValue(c0, REG_LIS2DW_WHO_AM_I_ADDR) # LIS2DW_DEV_ID
              THEN [c1 EXCEPT !.err = "invalid_id"]
              ELSE c1
        c3 == lis_set_reg(c2, REG_LIS2DW_CTRL_REG6_ADDR, 52)
        c4 == lis_set_reg(c3, REG_LIS2DW_FIFO_CTRL, 192)
        c5 == lis_set_reg(c4, REG_LIS2DW_CTRL_REG1_ADDR, 148)
    IN  IF c5.err # "none"
        THEN [regs |-> c5.regs, spi |-> c5.spi, cmds |-> <<>>,
              err |-> c5.err, queue |-> lis_queue, running |-> lis_running]
        ELSE \* clear_samples, query_lis2dw, note_start, _update_clock
             [regs |-> c5.regs, spi |-> c5.spi,
              cmds |-> <<"start", "status">>, err |-> "none",
              queue |-> 0, running |-> TRUE]

\* LIS2DW._finish_measurements
lis_finish_measurements(bad) ==
    LET c1 == lis_set_reg(LisNewCtx(bad), REG_LIS2DW_FIFO_CTRL, 0)
    IN  [regs |-> c1.regs, spi |-> c1.spi, cmds |-> <<"stop">>,
         err |-> c1.err, queue |-> 0, running |-> FALSE]

-----------------------------------------------------------------------------
(* The decoders.  A block is [seq, len]: its sequence number and the        *)
(* number of its payload bytes.                                             *)

\* len(sdata) for a block of count bytes: one entry per i in
\* range(0, count-1, 2)
sdata_len(count) == Cardinality({i \in 0 .. count - 2 : i % 2 = 0})

\* decode_samples on one block of count bytes: the samples it yields, and
\* the IndexError of a read beyond d or beyond sdata.
decode_block(count) ==
    [n |-> count \div BYTES_PER_SAMPLE,
     err |-> IF \/ \E i \in 0 .. count - 2 : i % 2 = 0 /\ i + 1 >= count
                \/ \E i \in 0 .. (count \div BYTES_PER_SAMPLE) - 1 :
                      i * 3 + 2 >= sdata_len(count)
             THEN "IndexError" ELSE "none"]

\* The loop of decode_samples over the blocks, with actual samples stored
\* so far in a list of total entries.
RECURSIVE decode_blocks(_, _, _)
decode_blocks(raw, actual, total) ==
    IF raw = <<>> THEN [count |-> actual, err |-> "none"]
    ELSE LET b == decode_block(Head(raw).len)
         IN  IF b.err # "none" THEN [count |-> 0, err |-> b.err]
             ELSE IF actual + b.n > total
             THEN [count |-> 0, err |-> "IndexError"]
             ELSE decode_blocks(Tail(raw), actual + b.n, total)

\* ADXL345Results.decode_samples: the number of samples it returns, or the
\* exception it raises.
decode_samples(res) ==
    IF ~res.has_raw THEN [count |-> 0, err |-> "none"]
    ELSE decode_blocks(res.raw_samples, 0, res.total_count)

\* An axis value read without its sign.
sdata_unsigned(low, high) == BitOr(low, ShiftLeft(high, 8))

\* decode_samples, an entry of sdata:
\* (d[i] | (d[i+1] << 8)) - ((d[i+1] & 0x80) << 9)
sdata_value(low, high) ==
    BitOr(low, ShiftLeft(high, 8)) - ShiftLeft(BitAnd(high, 128), 9)

\* _extract_samples: rx = (((xhigh << 8) | xlow)) - ((xhigh & 0x80) << 9)
raw_xyz_value(low, high) ==
    BitOr(ShiftLeft(high, 8), low) - ShiftLeft(BitAnd(high, 128), 9)

\* seq_to_time as a multiple of the time of one sample.
seq_to_time_dense(time_per_sample) == time_per_sample

\* self.seq_to_time = time_per_sample * 8.
seq_to_time(time_per_sample) == time_per_sample * SAMPLES_PER_BLOCK

\* The samples decode_samples makes of the block b, in the order it stores
\* them.  Times are kept as multiples of 1 / total_count: start2 is
\* start2_time * total_count and time_per_sample is total_time.
block_samples(b, start2, time_per_sample) ==
    LET seq_time == start2 + b.seq * seq_to_time(time_per_sample)
    IN  [k \in 1 .. b.len \div BYTES_PER_SAMPLE |->
            [seq |-> b.seq, i |-> k - 1,
             time |-> seq_time + (k - 1) * time_per_sample]]

RECURSIVE decode_list(_, _, _)
\* The list decode_samples fills, block after block.
decode_list(raw, start2, time_per_sample) ==
    IF raw = <<>> THEN <<>>
    ELSE block_samples(Head(raw), start2, time_per_sample)
            \o decode_list(Tail(raw), start2, time_per_sample)

\* ADXL345Results.decode_samples: the samples it returns.
decode_samples_list(res) ==
    IF ~res.has_raw \/ decode_samples(res).err # "none" THEN <<>>
    ELSE decode_list(res.raw_samples, res.start2_time * res.total_count,
                     res.end2_time - res.start2_time)

\* Python's & of an integer a of either sign with a mask 2^k - 1: a
\* negative a is an infinite two's complement, whose low k bits are those
\* of a plus any multiple of 2^k.
PyAndMask(a, mask) ==
    IF a >= 0 THEN BitAnd(a, mask)
    ELSE BitAnd(a + (mask + 1) * (((0 - a) \div (mask + 1)) + 1), mask)

\* A reconstruction that would never place a block behind last_sequence.
lis_seq_ahead(last, sequence) == last + PyAndMask(sequence - last, 65535)

\* _extract_samples, the sequence number of a block from its 16-bit field:
\*   seq_diff = (params['sequence'] - last_sequence) & 0xffff
\*   seq_diff -= (seq_diff & 0x8000) << 1
\*   seq = last_sequence + seq_diff
lis_seq(last, sequence) ==
    LET seq_diff == PyAndMask(sequence - last, 65535)
    IN  last + (seq_diff - ShiftLeft(BitAnd(seq_diff, 32768), 1))

\* The loops of LIS2DW._extract_samples: count samples stored so far in a
\* list of cap entries, i the inner loop's variable (bound once a block has
\* had a sample), seq the sequence number of the last block, last the
\* clock updater's last_sequence.
RECURSIVE extract_blocks(_, _, _, _, _, _, _)
extract_blocks(raw, count, bound, i, seq, cap, last) ==
    IF raw = <<>>
    THEN \* set_last_chip_clock(seq * SAMPLES_PER_BLOCK + i)
         IF ~bound THEN [count |-> 0, clock |-> 0, err |-> "UnboundLocalError"]
         ELSE [count |-> count, clock |-> seq * LIS_SAMPLES_PER_BLOCK + i,
               err |-> "none"]
    ELSE LET n == Head(raw).len \div LIS_BYTES_PER_SAMPLE
         IN  IF count + n > cap
             THEN [count |-> 0, clock |-> 0, err |-> "IndexError"]
             ELSE extract_blocks(Tail(raw), count + n, bound \/ n > 0,
                                 IF n > 0 THEN n - 1 ELSE i,
                                 lis_seq(last, Head(raw).seq), cap, last)

\* LIS2DW._extract_samples on blocks whose seq is the 16-bit field of the
\* message.
extract_samples(raw, last) ==
    extract_blocks(raw, 0, FALSE, 0, 0, Len(raw) * LIS_SAMPLES_PER_BLOCK,
                   last)

\* The samples _extract_samples makes of the block b: cdiff is
\* msg_cdiff + i, the ticks between chip_base and the sample.
lis_block_samples(b, last, chip_base) ==
    LET seq == lis_seq(last, b.seq)
        msg_cdiff == seq * LIS_SAMPLES_PER_BLOCK - chip_base
    IN  [k \in 1 .. b.len \div LIS_BYTES_PER_SAMPLE |->
            [field |-> b.seq, seq |-> seq, i |-> k - 1,
             cdiff |-> msg_cdiff + (k - 1)]]

RECURSIVE extract_list(_, _, _)
\* The list _extract_samples fills, block after block.
extract_list(raw, last, chip_base) ==
    IF raw = <<>> THEN <<>>
    ELSE lis_block_samples(Head(raw), last, chip_base)
            \o extract_list(Tail(raw), last, chip_base)

\* LIS2DW._extract_samples: the samples it returns.
extract_samples_list(raw, last, chip_base) ==
    IF extract_samples(raw, last).err # "none" THEN <<>>
    ELSE extract_list(raw, last, chip_base)

\* LIS2DW.last_error_count: set to 0 by __init__ and by every start, and
\* assigned nowhere else.
last_error_count == 0

\* LIS2DW._process_batch on the pending blocks raw, with the limit_count
\* and the last_sequence the clock updater has from the status answer: the steps it takes in order, and what it returns
\* to the batch helper.
process_batch(raw, limit_count, last) ==
    IF raw = <<>>
    THEN [steps |-> <<"status", "pull">>, pulled |-> raw, err |-> "none",
          published |-> FALSE, data |-> 0, errors |-> 0, overflows |-> 0]
    ELSE LET d == extract_samples(raw, last)
         IN  IF d.err # "none"
             THEN [steps |-> <<"status", "pull", "extract">>, pulled |-> raw,
                   err |-> d.err,
                   published |-> FALSE, data |-> 0, errors |-> 0,
                   overflows |-> 0]
             ELSE IF d.count = 0
             THEN [steps |-> <<"status", "pull", "extract">>, pulled |-> raw,
                   err |-> "none",
                   published |-> FALSE, data |-> 0, errors |-> 0,
                   overflows |-> 0]
             ELSE [steps |-> <<"status", "pull", "extract">>, pulled |-> raw,
                   err |-> "none",
                   published |-> TRUE, data |-> d.count,
                   errors |-> last_error_count, overflows |-> limit_count]

-----------------------------------------------------------------------------
(* Inputs *)

\* rate arguments of start_measurements (0: None, the configured rate)
RateInputs == {0, 25}
\* identity bytes a chip may answer: the ADXL345's, or a miswired bus's
DevIds == {ADXL345_DEV_ID, 0}
LisDevIds == {LIS2DW_DEV_ID, 0}
\* set_reg calls one operation can make (6 in a start that initializes);
\* 0 means every read-back matches
BadWrites == 0 .. 6
\* runs of consecutive blocks lost in transit
LossRuns == {1, 65534, 65535}
\* 16-bit sequence fields and payload lengths of blocks that are not the
\* running session's next block (late, repeated or corrupted messages)
StraySeqs == {0, 1, 65535}
StrayLens == {5, 48}
\* RATE parameters of ACCELEROMETER_MEASURE: two keys of QUERY_RATES, 0,
\* and a number between two keys
CmdRates == {0, 25, 30, 3200}
\* REG parameters of the debug commands: the lowest register allowed, and
\* the one below it
DebugRegs == {DebugRegMin, DebugRegMin - 1}
\* VAL parameters of ADXL345_DEBUG_WRITE: a byte, and the number above the
\* largest byte
DebugVals == {7, 256}
\* times, in tenths of a second, after which a reactor.pause returns
PauseDelays == {10, 20}
\* samples in the short block the firmware flushes when it is stopped
PartialSamples == {3}
\* Largest value last_sequence may take in the model.
MaxLastSequence == 131074

\* retries arguments of calibrate: the default and a smaller budget
RetryBudgets == {1, DefaultRetries}
\* means of an attempt's samples, in mm/s^2: the chip at rest on either
\* side of the lower limit of the gravity check and above the upper one,
\* and a chip on its side just below the upper limit
SampleMeans == {<<0, 0, 4903>>, <<0, 0, 4904>>, <<0, 0, 14710>>,
                <<-10400, 10401, 0>>}
\* noise of an attempt's samples: the largest that passes, the smallest
\* that does not
Noises == {TAP_THRESH, TAP_THRESH + 1}
\* reads of REG_INT_SOURCE that find the tap flag set
TapCounts == {0, 1, ClearTapTries + 1}
\* the failing set_reg call of a calibration step (0: none)
CalBad == {0, 1, 3, 12}
\* pieces of an axes_map option: an axis name, one with blanks around it,
\* a negated one, a name am does not know and an empty piece
AxisTokens == {<<"x">>, <<" ", "y", " ">>, <<"-", "z">>, <<"w">>, <<>>}
\* axes_map options split at the commas: every option of three pieces, the
\* default, one of two pieces and one of four
AxesConfigs ==
    [1 .. 3 -> AxisTokens]
    \cup {DefaultAxes, << <<"x">>, <<"y">> >>,
          << <<"x">>, <<"y">>, <<"z">>, <<"x">> >>}
\* payload lengths of a block: empty, either side of one sample, one byte
\* short of a full block, a full block
DecLens == {0, 5, 6, 7, 47, 48, 54}
\* batches of consecutive blocks handed to a decoder
DecBatches ==
    UNION {[1 .. n -> [seq : {0}, len : DecLens]] : n \in 1 .. MaxBatch}

\* A batch whose sequence numbers grow by step from block to block.
Spaced(batch, step) ==
    [i \in 1 .. Len(batch) |-> [seq |-> (i - 1) * step, len |-> batch[i].len]]

\* the values of a byte of a payload
Bytes == 0 .. 255

\* 16-bit sequence fields of LIS2DW blocks: around 0, around the middle
\* and at the top of the range
LisSeqFields == {0, 1, 32767, 32768, 65535}
\* last_sequence of the clock updater: a session's start, either side of
\* the middle of the 16-bit range, either side of its end, and beyond
LastSequences == {0, 32767, 32768, 65535, 65536, 98304}
\* chip_base of the clock synchronizer, in ticks
ChipBases == {0, 5}
\* batches of LIS2DW blocks with any of these fields, of one sample or full
LisBatches ==
    UNION {[1 .. n -> [seq : LisSeqFields,
                       len : {LIS_BYTES_PER_SAMPLE,
                              LIS_SAMPLES_PER_BLOCK * LIS_BYTES_PER_SAMPLE}]] :
           n \in 1 .. MaxBatch}

\* gaps between the sequence numbers of a batch: a block buffered twice,
\* consecutive blocks, every second block lost
SeqSteps == {0, 1, 2}
\* (start2_time, end2_time) of a session
DecTimes == {<<1, 1>>, <<1, 3>>}
\* blocks the firmware pushed after the last one buffered
LostAtEnd == {0, 1}

\* A batch numbered as the firmware numbers its blocks.
Numbered(batch) ==
    [i \in 1 .. Len(batch) |-> [seq |-> i - 1, len |-> batch[i].len]]

FullLen == SAMPLES_PER_BLOCK * BYTES_PER_SAMPLE

\* payload lengths of the blocks in the LIS2DW's bulk queue: short of one
\* sample, one sample, a full block
LisLens == {LIS_BYTES_PER_SAMPLE - 1, LIS_BYTES_PER_SAMPLE,
            LIS_SAMPLES_PER_BLOCK * LIS_BYTES_PER_SAMPLE}

-----------------------------------------------------------------------------
(* State machine *)

fw_running == sent_cmds # <<>> /\ sent_cmds[Len(sent_cmds)] = "start"

\* The record of an operation: arg is its argument (the rate of a start, the
\* 16-bit sequence field of a block), pre the state it started in, fw what
\* the firmware did and reported during a finish: the samples it pushed in
\* the session, its limit_count, its block count, whether the session was
\* well-formed (wf) and whether fewer than 2^16 blocks lay between any two
\* consecutive entries of: the start, the blocks handled, the stop response
\* (gaps_ok).
OpRec(name, arg, out, res, returned) ==
    [name |-> name, arg |-> arg, err |-> out.err, spi |-> out.spi, cmds |-> out.cmds,
     res |-> res, returned |-> returned,
     pre |-> [measuring |-> is_measuring, buffered |-> Len(raw_samples)],
     fw |-> [pushed |-> 0, limit_count |-> 0, wf |-> wf,
             gaps_ok |-> mono_ok, blocks |-> 0]]

\* No decoder has run.
NoDecode == [chip |-> "none", op |-> "none", count |-> 0, err |-> "none"]

\* No batch cycle has run.
NoBatch == [steps |-> <<>>, pulled |-> <<>>, err |-> "none", published |-> FALSE, data |-> 0,
            errors |-> 0, overflows |-> 0]

\* No calibration has run.
NoCal == [outcome |-> "none", attempt |-> 0, budget |-> 0, retries |-> 0,
          mean |-> <<0, 0, 0>>, noise |-> 0]

\* The state after construction, but for the configuration options.
InitCommon ==
    /\ config_chip \in {"adxl345", "lis2dw"}
    /\ query_rate = 0
    /\ last_tx_time = 0
    /\ raw_samples = <<>>
    /\ last_sequence = 0
    /\ samples_start1 = 0
    /\ samples_start2 = 0
    /\ regs = [r \in Regs |-> IF r = REG_BW_RATE THEN 10 ELSE 0]
    /\ devid = ADXL345_DEV_ID
    /\ sent_cmds = <<>>
    /\ fw_seq = 0
    /\ fw_events = 0
    /\ true_last = 0
    /\ mono_ok = TRUE
    /\ wf = TRUE
    /\ lis_regs = [r \in LisRegs |-> 0]
    /\ lis_devid = LIS2DW_DEV_ID
    /\ lis_queue = 0
    /\ lis_batch = NoBatch
    /\ lis_running = FALSE
    /\ cmd_pc = "none"
    /\ query_elapsed = 0
    /\ calibrated = FALSE
    /\ pending = <<>>
    /\ cal_op = NoCal
    /\ dec_out = NoDecode
    /\ exports = <<>>
    /\ last_op = OpRec("init", 0, [err |-> "none", spi |-> <<>>, cmds |-> <<>>],
                       NewResults, TRUE)

\* The state after construction from a section with the default axes_map
\* and a probe pin that is not inverted.
Init ==
    /\ InitCommon
    /\ dec_raw = <<>>
    /\ dec_bytes = <<0, 0>>
    /\ inverted = FALSE
    /\ axes_cfg = DefaultAxes
    /\ axes_map = read_axes_map(DefaultAxes).axes_map
    /\ config_err = "none"

\* The effect of a start_measurements that ended as out, in an operation
\* called name.
ApplyStart(name, arg, out) ==
    LET started == out.cmds # <<>>
    IN  /\ query_rate' = out.query_rate
        /\ last_tx_time' = out.last_tx_time
        /\ raw_samples' = out.raw_samples
        /\ last_sequence' = out.last_sequence
        /\ samples_start1' = out.samples_start1
        /\ samples_start2' = out.samples_start2
        /\ regs' = out.regs
        /\ sent_cmds' = sent_cmds \o out.cmds
        \* the firmware numbers the blocks of a new session from 0
        /\ fw_seq' = IF started THEN 0 ELSE fw_seq
        /\ fw_events' = IF started THEN 0 ELSE fw_events
        /\ true_last' = IF started THEN 0 ELSE true_last
        /\ mono_ok' = IF started THEN TRUE ELSE mono_ok
        /\ wf' = IF started THEN TRUE ELSE wf
        /\ last_op' = OpRec(name, arg, out, NewResults, out.err = "none")

\* A call of start_measurements.
StartMeasurements(rate, t, bad) ==
    /\ config_chip = "adxl345"
    /\ Len(sent_cmds) < MaxCmds
    /\ ApplyStart("start", rate, start_measurements(rate, t, bad))
    /\ UNCHANGED <<devid, lis, extras>>

\* _handle_adxl345_start: the firmware reports the clocks around its start.
HandleStart(s1, s2) ==
    /\ config_chip = "adxl345"
    /\ fw_running
    /\ s1 <= s2
    /\ samples_start1' = s1
    /\ samples_start2' = s2
    /\ last_op' = OpRec("adxl345_start", 0,
                        [err |-> "none", spi |-> <<>>, cmds |-> <<>>],
                        NewResults, TRUE)
    /\ UNCHANGED <<query_rate, last_tx_time, raw_samples, last_sequence,
                   regs, devid, sent_cmds, fw_seq, fw_events,
                   true_last, mono_ok, wf, lis, extras>>

\* The handler's effect on the session, for a block with the given fields.
DataArrives(sequence, len) ==
    LET h == handle_data(last_sequence, raw_samples, sequence, len)
    IN  /\ last_sequence' = h.last_sequence
        /\ raw_samples' = h.raw_samples
        /\ last_op' = OpRec("data", sequence,
                            [err |-> "none", spi |-> <<>>, cmds |-> <<>>],
                            NewResults, TRUE)
        /\ UNCHANGED <<query_rate, last_tx_time, samples_start1,
                       samples_start2, regs, devid, sent_cmds, lis, extras>>

\* The firmware pushes its next full block and the host handles it.
FwDeliver ==
    /\ config_chip = "adxl345"
    /\ config_err = "none"
    /\ fw_running
    /\ fw_events < MaxBlocks
    /\ DataArrives(fw_seq % SEQ_MODULUS, FullLen)
    /\ fw_seq' = fw_seq + 1
    /\ fw_events' = fw_events + 1
    /\ true_last' = fw_seq
    /\ mono_ok' = (mono_ok /\ fw_seq - true_last < SEQ_MODULUS)
    /\ UNCHANGED wf

\* The firmware pushes k blocks that never reach the host.
FwLose(k) ==
    /\ config_chip = "adxl345"
    /\ fw_running
    /\ fw_events < MaxBlocks
    /\ fw_seq' = fw_seq + k
    /\ fw_events' = fw_events + 1
    /\ last_op' = OpRec("lost", 0, [err |-> "none", spi |-> <<>>, cmds |-> <<>>],
                        NewResults, TRUE)
    /\ UNCHANGED <<session, regs, devid, sent_cmds, true_last,
                   mono_ok, wf, lis, extras>>

\* A block that is not the session's next one reaches the handler.
StrayBlock(sequence, len) ==
    /\ config_chip = "adxl345"
    /\ convert_sequence(last_sequence, sequence) <= MaxLastSequence
    /\ DataArrives(sequence, len)
    /\ wf' = FALSE
    /\ mono_ok' = FALSE
    /\ UNCHANGED <<fw_seq, fw_events, true_last>>

\* A call of finish_measurements, with what the firmware does meanwhile.
\* While the host waits for the adxl345_end response the firmware flushes
\* the samples it still holds as one short block (fin: "none" when it holds
\* none, else whether that block reaches the handler), then answers with
\* its block count and its limit_count.  out is what finish_measurements
\* returns and leaves; the other fields are the firmware's side.
FinishOutcome(t, limit_count, fin, k) ==
    LET flushed == is_measuring /\ fin # "none"
        n  == IF flushed THEN fw_seq + 1 ELSE fw_seq
        h  == IF flushed /\ fin = "delivered"
              THEN handle_data(last_sequence, raw_samples,
                               fw_seq % SEQ_MODULUS, k * BYTES_PER_SAMPLE)
              ELSE [last_sequence |-> last_sequence,
                    raw_samples |-> raw_samples]
        params == [sequence |-> n % SEQ_MODULUS,
                   limit_count |-> limit_count,
                   end1_clock |-> t, end2_clock |-> t]
        arrived == flushed /\ fin = "delivered"
        tl == IF arrived THEN fw_seq ELSE true_last
        mo == IF arrived
              THEN mono_ok /\ fw_seq - true_last < SEQ_MODULUS
              ELSE mono_ok
    IN  [out |-> finish_measurements(h.last_sequence, h.raw_samples, t,
                                     params),
         fw_seq |-> n, true_last |-> tl, mono_ok |-> mo,
         fw |-> [pushed |-> IF is_measuring
                            THEN fw_seq * SAMPLES_PER_BLOCK
                                 + (IF flushed THEN k ELSE 0)
                            ELSE 0,
                 limit_count |-> limit_count,
                 wf |-> wf,
                 gaps_ok |-> mo /\ n - tl < SEQ_MODULUS,
                 blocks |-> n]]

\* The record of an operation that ran the finish f and ended with err.
FinishRec(name, f, err, returned) ==
    [OpRec(name, 0, [err |-> err, spi |-> <<>>, cmds |-> f.out.cmds],
           f.out.res, returned)
     EXCEPT !.fw = f.fw]

\* The effect of the finish f on the session and the firmware.
ApplyFinish(f) ==
    /\ query_rate' = f.out.query_rate
    /\ last_tx_time' = f.out.last_tx_time
    /\ raw_samples' = f.out.raw_samples
    /\ last_sequence' = f.out.last_sequence
    /\ sent_cmds' = sent_cmds \o f.out.cmds
    /\ fw_seq' = f.fw_seq
    /\ true_last' = f.true_last
    /\ mono_ok' = f.mono_ok

\* A call of finish_measurements.
FinishMeasurements(t, limit_count, fin, k) ==
    /\ config_chip = "adxl345"
    /\ Len(sent_cmds) < MaxCmds
    /\ LET f == FinishOutcome(t, limit_count, fin, k)
       IN  /\ ApplyFinish(f)
           /\ last_op' = FinishRec("finish", f, f.out.err, f.out.returned)
    /\ UNCHANGED <<samples_start1, samples_start2, regs, devid, fw_events,
                   wf, lis, extras>>

\* The chip on the bus is replaced or rewired: its identity byte changes.
ChipChange(id) ==
    /\ config_chip = "adxl345"
    /\ id # devid
    /\ devid' = id
    /\ last_op' = OpRec("chip", 0, [err |-> "none", spi |-> <<>>, cmds |-> <<>>],
                        NewResults, TRUE)
    /\ UNCHANGED <<session, regs, sent_cmds, fw_seq, fw_events,
                   true_last, mono_ok, wf, lis, extras>>

NoBus == [err |-> "none", spi |-> <<>>, cmds |-> <<>>]

\* The batch helper starts the LIS2DW's measurements.
LisStart(bad) ==
    /\ config_chip = "lis2dw"
    /\ LET out == lis_start_measurements(bad)
       IN  /\ lis_regs' = out.regs
           /\ lis_queue' = out.queue
           /\ lis_running' = out.running
           /\ last_op' = OpRec("lis_start", 0, out, NewResults,
                               out.err = "none")
    /\ UNCHANGED <<adxl, extras, lis_devid, lis_batch>>

\* The batch helper stops the LIS2DW's measurements.
LisFinish(bad) ==
    /\ config_chip = "lis2dw"
    /\ LET out == lis_finish_measurements(bad)
       IN  /\ lis_regs' = out.regs
           /\ lis_queue' = out.queue
           /\ lis_running' = out.running
           /\ last_op' = OpRec("lis_finish", 0, out, NewResults,
                               out.err = "none")
    /\ UNCHANGED <<adxl, extras, lis_devid, lis_batch>>

\* A lis2dw_data message is queued by the bulk queue.
LisData ==
    /\ config_chip = "lis2dw"
    /\ lis_queue < MaxLisQueue
    /\ lis_queue' = lis_queue + 1
    /\ last_op' = OpRec("lis_data", 0, NoBus, NewResults, TRUE)
    /\ UNCHANGED <<adxl, extras, lis_regs, lis_devid, lis_running, lis_batch>>

\* A batch cycle of the LIS2DW: _process_batch on the n pending blocks,
\* whose payloads have the lengths lens, with the status answer's
\* limit_count.
ProcessBatch(lens, limit_count) ==
    /\ config_chip = "lis2dw"
    /\ lis_running
    /\ Len(lens) = lis_queue
    /\ \E b \in {process_batch(Numbered([i \in 1 .. Len(lens) |->
                                            [seq |-> 0, len |-> lens[i]]]),
                               limit_count, lis_queue)} :
          /\ lis_batch' = b
          /\ last_op' = [OpRec("process_batch", lis_queue,
                               [err |-> b.err, spi |-> <<>>,
                                cmds |-> <<"status">>],
                               NewResults, b.err = "none")
                            EXCEPT !.fw.limit_count = limit_count]
    /\ lis_queue' = 0
    /\ UNCHANGED <<adxl, extras, lis_regs, lis_devid, lis_running>>

\* The LIS2DW on the bus is replaced or rewired.
LisChipChange(id) ==
    /\ config_chip = "lis2dw"
    /\ id # lis_devid
    /\ lis_devid' = id
    /\ last_op' = OpRec("lis_chip", 0, NoBus, NewResults, TRUE)
    /\ UNCHANGED <<adxl, extras, lis_regs, lis_queue, lis_running, lis_batch>>

-----------------------------------------------------------------------------
(* G-code commands of the ADXL345.  Commands run one at a time; while one  *)
(* is paused in the reactor the message handlers still run.                *)

\* An operation that ends with the exception err before it touches anything.
Reject(name, arg, err) ==
    /\ last_op' = OpRec(name, arg, [err |-> err, spi |-> <<>>, cmds |-> <<>>],
                        NewResults, FALSE)
    /\ UNCHANGED <<adxl, lis, extras>>

\* A write_to_file that would write the file itself, before it returns.
write_to_file_inline(res) ==
    [state |-> IF decode_samples_err(res) = "none" THEN "done" ELSE "failed",
     decode_err |-> decode_samples_err(res)]

\* write_to_file: starts a daemon process that will run write_impl, and
\* returns.  decode_err is what decode_samples will raise in that process.
write_to_file(res) ==
    [state |-> "running", decode_err |-> decode_samples_err(res)]

\* The process of the i-th export runs write_impl to its end: it fails when
\* the file cannot be opened or written (io_ok false) or when
\* decode_samples raises.
ExportEnd(i, io_ok) ==
    /\ config_chip = "adxl345"
    /\ i \in 1 .. Len(exports)
    /\ exports[i].state = "running"
    /\ exports' = [exports EXCEPT ![i].state =
                      IF io_ok /\ exports[i].decode_err = "none"
                      THEN "done" ELSE "failed"]
    /\ last_op' = OpRec("export_end", i,
                        [err |-> "none", spi |-> <<>>, cmds |-> <<>>],
                        NewResults, TRUE)
    /\ UNCHANGED <<adxl, lis, cmd, probe, config, decoder>>

\* A command that would pass any rate on.
measure_rate_unchecked(rate) == TRUE

\* cmd_ACCELEROMETER_MEASURE: rate in QUERY_RATES
measure_rate_ok(rate) == rate \in DOMAIN QUERY_RATES

\* cmd_ACCELEROMETER_MEASURE.  has_rate: the command carries RATE=rate;
\* name_ok: its NAME (or the time stamp that stands in for it) is
\* alphanumeric but for - and _.  The export that end_query starts runs in
\* a process of its own and touches nothing of the driver.
CmdMeasure(has_rate, rate, name_ok, t, bad, limit_count, fin, k) ==
    /\ config_chip = "adxl345"
    /\ cmd_pc = "none"
    /\ Len(sent_cmds) < MaxCmds
    /\ LET r == IF has_rate THEN rate ELSE DataRate
       IN  IF is_measuring
           THEN IF ~name_ok
                THEN Reject("measure", r, "invalid_name")
                ELSE \* end_query: finish_measurements, write_to_file
                     \E f \in {FinishOutcome(t, limit_count, fin, k)} :
                         /\ ApplyFinish(f)
                         /\ exports' = IF f.out.err = "none"
                                       THEN Append(exports,
                                                   write_to_file(f.out.res))
                                       ELSE exports
                         /\ last_op' = [FinishRec("measure", f, f.out.err,
                                                  f.out.returned)
                                        EXCEPT !.arg = r]
                         /\ UNCHANGED <<samples_start1, samples_start2,
                                        regs, devid, fw_events, wf, lis,
                                        cmd, probe, config, decoder>>
           ELSE IF ~measure_rate_ok(r)
                THEN Reject("measure", r, "invalid_rate")
                ELSE /\ ApplyStart("measure", r,
                                   start_measurements(r, t, bad))
                     /\ UNCHANGED <<devid, lis, extras>>

\* cmd_ACCELEROMETER_QUERY up to its first reactor.pause: a start always
\* leaves the buffer empty, so the poll loop is entered.
CmdQueryBegin(t, bad) ==
    /\ config_chip = "adxl345"
    /\ cmd_pc = "none"
    /\ Len(sent_cmds) < MaxCmds
    /\ IF is_measuring
       THEN Reject("query", 0, "in_progress")
       ELSE LET out == start_measurements(0, t, bad)
            IN  /\ ApplyStart("query", 0, out)
                /\ cmd_pc' = IF out.err = "none" THEN "query" ELSE "none"
                /\ query_elapsed' = 0
                /\ UNCHANGED <<devid, lis, probe, config, decoder, exports>>

\* A debug command that would run whatever the session does.
debug_refused_never(measuring) == FALSE

\* The debug commands raise "measurements in progress" if is_measuring().
debug_refused(measuring) == measuring

\* gcmd.get("REG", minval=29, maxval=57)
debug_reg_ok(reg) == reg >= DebugRegMin /\ reg <= DebugRegMax

\* gcmd.get("VAL", minval=0, maxval=255)
debug_val_ok(val) == val >= 0 /\ val <= 255

\* The effect of a debug command that ended with the bus context c.
ApplyDebug(name, reg, c) ==
    /\ regs' = c.regs
    /\ last_op' = OpRec(name, reg, [err |-> c.err, spi |-> c.spi,
                                    cmds |-> <<>>],
                        NewResults, c.err = "none")
    /\ UNCHANGED <<session, devid, sent_cmds, fw_seq, fw_events, true_last,
                   mono_ok, wf, lis, extras>>

\* cmd_ADXL345_DEBUG_READ
CmdDebugRead(reg) ==
    /\ config_chip = "adxl345"
    /\ cmd_pc = "none"
    /\ IF debug_refused(is_measuring)
       THEN Reject("debug_read", reg, "in_progress")
       ELSE IF ~debug_reg_ok(reg)
       THEN Reject("debug_read", reg, "invalid_reg")
       ELSE ApplyDebug("debug_read", reg, read_reg(NewCtx(0), reg))

\* cmd_ADXL345_DEBUG_WRITE
CmdDebugWrite(reg, val, bad) ==
    /\ config_chip = "adxl345"
    /\ cmd_pc = "none"
    /\ IF debug_refused(is_measuring)
       THEN Reject("debug_write", reg, "in_progress")
       ELSE IF ~debug_reg_ok(reg)
       THEN Reject("debug_write", reg, "invalid_reg")
       ELSE IF ~debug_val_ok(val)
       THEN Reject("debug_write", reg, "invalid_val")
       ELSE ApplyDebug("debug_write", reg, set_reg(NewCtx(bad), reg, val))

\* What cmd_ACCELEROMETER_QUERY raises after a finish that returned res:
\* decode_samples may raise, and values[-1] needs a sample.
query_values_err(res) ==
    IF decode_samples_err(res) # "none" THEN decode_samples_err(res)
    ELSE IF decode_samples_count(res) = 0 THEN "IndexError"
    ELSE "none"

\* cmd_ACCELEROMETER_QUERY from the return of a reactor.pause, d after the
\* pause began, to the next pause or to its end.
QueryWake(d, t, limit_count, fin, k) ==
    /\ config_chip = "adxl345"
    /\ cmd_pc = "query"
    /\ d >= QueryPause
    /\ Len(sent_cmds) < MaxCmds
    /\ query_elapsed' = query_elapsed + d
    /\ IF query_elapsed' > QueryWindow
       THEN \* finish_measurements(), then raise "Timeout reading adxl345 data"
            LET f == FinishOutcome(t, limit_count, fin, k)
                err == IF f.out.err # "none" THEN f.out.err ELSE "timeout"
            IN  /\ ApplyFinish(f)
                /\ last_op' = [FinishRec("query", f, err, FALSE)
                               EXCEPT !.arg = query_elapsed']
                /\ cmd_pc' = "none"
                /\ UNCHANGED <<samples_start1, samples_start2, regs, devid,
                               fw_events, wf, lis, probe, config, decoder, exports>>
       ELSE IF raw_samples = <<>>
       THEN \* the loop pauses again
            /\ last_op' = [OpRec("query_poll", 0, NoBus, NewResults, TRUE)
                           EXCEPT !.arg = query_elapsed']
            /\ UNCHANGED <<adxl, lis, cmd_pc, probe, config, decoder,
                           exports>>
       ELSE LET f == FinishOutcome(t, limit_count, fin, k)
                err == IF f.out.err # "none" THEN f.out.err
                       ELSE query_values_err(f.out.res)
            IN  /\ ApplyFinish(f)
                /\ last_op' = [FinishRec("query", f, err, err = "none")
                               EXCEPT !.arg = query_elapsed']
                /\ cmd_pc' = "none"
                /\ UNCHANGED <<samples_start1, samples_start2, regs, devid,
                               fw_events, wf, lis, probe, config, decoder, exports>>

-----------------------------------------------------------------------------
(* Calibration and probing *)

\* What a step of the calibration entry e decided, and the mean and the
\* noise of the samples it decided on.
CalRec(outcome, e, mean, noise) ==
    [outcome |-> outcome, attempt |-> e.attempt, budget |-> e.budget,
     retries |-> e.retries, mean |-> mean, noise |-> noise]

\* calibrate(gcmd, retries) called from outside: the klippy:connect event
\* and ACCEL_PROBE_CALIBRATE call it with the default retries.
Calibrate(retries, t, bad) ==
    /\ config_chip = "adxl345"
    /\ config_err = "none"
    \* no evaluation of an earlier calibration is still due
    /\ pending = <<>>
    /\ Len(sent_cmds) < MaxCalCmds
    /\ \E out \in {calibrate_from(SessionNow, NewCtx(bad), t)} :
       LET e == [retries |-> retries, attempt |-> 1, budget |-> retries]
       IN  /\ ApplyStart("calibrate", retries, out)
           /\ pending' = IF calibrate_schedules(out.err)
                         THEN Append(pending, e) ELSE pending
           /\ cal_op' = CalRec(IF calibrate_schedules(out.err)
                               THEN "scheduled" ELSE "error",
                               e, <<0, 0, 0>>, 0)
    /\ UNCHANGED <<devid, lis, cmd, calibrated, inverted, config, decoder,
                   exports>>

\* The session a finish leaves.
SessionAfter(f) ==
    [query_rate |-> f.out.query_rate, last_tx_time |-> f.out.last_tx_time,
     raw_samples |-> f.out.raw_samples,
     last_sequence |-> f.out.last_sequence,
     samples_start1 |-> samples_start1, samples_start2 |-> samples_start2]

\* The reactor runs the oldest callback of calibrate: _offset_axes, on
\* samples of the given mean and noise.
OffsetAxes(mean, noise, t, bad, limit_count, fin, k) ==
    /\ config_chip = "adxl345"
    /\ config_err = "none"
    /\ pending # <<>>
    /\ Len(sent_cmds) + 2 <= MaxCalCmds
    /\ \E f \in {FinishOutcome(t, limit_count, fin, k)} :
       LET e == Head(pending)
           \* finish_measurements, decode_samples, the three means
           derr == IF f.out.err # "none" THEN f.out.err
                   ELSE IF decode_samples_err(f.out.res) # "none"
                   THEN decode_samples_err(f.out.res)
                   ELSE IF decode_samples_count(f.out.res) = 0
                   THEN "ZeroDivisionError"
                   ELSE "none"
       IN  IF derr # "none"
           THEN /\ ApplyFinish(f)
                /\ last_op' = [FinishRec("offset_axes", f, derr, FALSE)
                               EXCEPT !.arg = e.retries]
                /\ pending' = Tail(pending)
                /\ cal_op' = CalRec("error", e, <<0, 0, 0>>, 0)
                /\ UNCHANGED <<samples_start1, samples_start2, regs,
                               fw_events, wf, calibrated>>
           ELSE IF ~gravity_ok(mean) \/ ~noise_ok(noise)
           THEN IF may_retry(e.retries)
                THEN \* self.calibrate(gcmd, retries-1)
                     \E out \in {calibrate_from(SessionAfter(f),
                                                 NewCtx(bad), t)} :
                     LET started == out.cmds # <<>>
                         n == [retries |-> e.retries - 1,
                               attempt |-> e.attempt + 1,
                               budget |-> e.budget]
                     IN  /\ query_rate' = out.query_rate
                         /\ last_tx_time' = out.last_tx_time
                         /\ raw_samples' = out.raw_samples
                         /\ last_sequence' = out.last_sequence
                         /\ samples_start1' = out.samples_start1
                         /\ samples_start2' = out.samples_start2
                         /\ regs' = out.regs
                         /\ sent_cmds' = sent_cmds \o f.out.cmds \o out.cmds
                         /\ fw_seq' = IF started THEN 0 ELSE f.fw_seq
                         /\ fw_events' = IF started THEN 0 ELSE fw_events
                         /\ true_last' = IF started THEN 0 ELSE f.true_last
                         /\ mono_ok' = IF started THEN TRUE ELSE f.mono_ok
                         /\ wf' = IF started THEN TRUE ELSE wf
                         /\ last_op' = [FinishRec("offset_axes", f, out.err,
                                                  out.err = "none")
                                        EXCEPT !.arg = e.retries,
                                               !.spi = out.spi,
                                               !.cmds = f.out.cmds \o out.cmds]
                         /\ pending' = IF calibrate_schedules(out.err)
                                       THEN Append(Tail(pending), n)
                                       ELSE Tail(pending)
                         /\ cal_op' = CalRec(IF calibrate_schedules(out.err)
                                             THEN "retry" ELSE "error",
                                             e, mean, noise)
                         /\ UNCHANGED calibrated
                ELSE \* the warning that self-calibration is aborted
                     /\ ApplyFinish(f)
                     /\ last_op' = [FinishRec("offset_axes", f, "none", TRUE)
                                    EXCEPT !.arg = e.retries]
                     /\ pending' = Tail(pending)
                     /\ cal_op' = CalRec("abort", e, mean, noise)
                     /\ UNCHANGED <<samples_start1, samples_start2, regs,
                                    fw_events, wf, calibrated>>
           ELSE \E c \in {write_offsets(NewCtx(bad), mean, 1)} :
                    /\ ApplyFinish(f)
                    /\ regs' = c.regs
                    /\ calibrated' = IF c.err = "none" THEN TRUE
                                     ELSE calibrated
                    /\ last_op' = [FinishRec("offset_axes", f, c.err,
                                             c.err = "none")
                                   EXCEPT !.arg = e.retries, !.spi = c.spi]
                    /\ pending' = Tail(pending)
                    /\ cal_op' = CalRec(IF c.err = "none" THEN "calibrated"
                                        ELSE "error", e, mean, noise)
                    /\ UNCHANGED <<samples_start1, samples_start2,
                                   fw_events, wf>>
    /\ UNCHANGED <<devid, lis, cmd, inverted, config, decoder, exports>>

\* The effect of a hook of the probe that ended with the bus context c.
ApplyProbe(name, c) ==
    /\ regs' = c.regs
    /\ last_op' = OpRec(name, 0, [err |-> c.err, spi |-> c.spi, cmds |-> <<>>],
                        NewResults, c.err = "none")
    /\ UNCHANGED <<session, devid, sent_cmds, fw_seq, fw_events, true_last,
                   mono_ok, wf, lis, extras>>

\* probe_prepare, called before a probing move.
ProbePrepare(bad, taps) ==
    /\ config_chip = "adxl345"
    /\ ApplyProbe("probe_prepare", probe_prepare(NewCtx(bad), taps))

\* probe_finish, called after a probing move.
ProbeFinish(bad, taps) ==
    /\ config_chip = "adxl345"
    /\ ApplyProbe("probe_finish", probe_finish(NewCtx(bad), taps))

-----------------------------------------------------------------------------
(* Decoding *)

\* The blocks dec_raw are the buffer of a session the firmware ended lost
\* blocks after the last of them, between start2_time and end2_time:
\* setup_data, then decode_samples on the result.
DecodeSamples(lost, start2_time, end2_time) ==
    /\ config_chip = "adxl345"
    /\ LET end_sequence == IF dec_raw = <<>> THEN 0
                           ELSE dec_raw[Len(dec_raw)].seq + 1 + lost
       IN  \E s \in {setup_data(dec_raw, end_sequence, 0,
                                 start2_time, end2_time)} :
              /\ dec_out' = IF s.err # "none"
                            THEN [chip |-> "adxl345", op |-> "setup_data",
                                  count |-> 0, err |-> s.err]
                            ELSE [chip |-> "adxl345", op |-> "decode_samples",
                                  count |-> decode_samples(s.res).count,
                                  err |-> decode_samples(s.res).err,
                                  samples |-> decode_samples_list(s.res)]
              /\ last_op' = OpRec("decode_samples", 0, NoBus, s.res, TRUE)
    /\ UNCHANGED <<adxl, lis, cmd, probe, config, dec_raw, dec_bytes, exports>>

\* decode_samples merges the two bytes of an axis.
DecodeAxis ==
    /\ config_chip = "adxl345"
    /\ dec_out' = [chip |-> "adxl345", op |-> "axis", count |-> 0,
                   err |-> "none",
                   value |-> sdata_value(dec_bytes[1], dec_bytes[2])]
    /\ last_op' = OpRec("decode_axis", 0, NoBus, NewResults, TRUE)
    /\ UNCHANGED <<adxl, lis, cmd, probe, config, dec_raw, dec_bytes, exports>>

\* _extract_samples merges the two bytes of an axis.
ExtractAxis ==
    /\ config_chip = "lis2dw"
    /\ dec_out' = [chip |-> "lis2dw", op |-> "axis", count |-> 0,
                   err |-> "none",
                   value |-> raw_xyz_value(dec_bytes[1], dec_bytes[2])]
    /\ last_op' = OpRec("extract_axis", 0, NoBus, NewResults, TRUE)
    /\ UNCHANGED <<adxl, lis, cmd, probe, config, dec_raw, dec_bytes, exports>>

\* _process_batch hands the blocks dec_raw it pulled to _extract_samples,
\* while the clock updater holds last and the clock synchronizer chip_base.
ExtractSamples(last, chip_base) ==
    /\ config_chip = "lis2dw"
    /\ dec_raw # <<>>
    /\ \E d \in {extract_samples(dec_raw, last)} :
          dec_out' = [chip |-> "lis2dw", op |-> "extract_samples",
                      count |-> d.count, err |-> d.err,
                      chip_base |-> chip_base,
                      samples |-> extract_samples_list(dec_raw, last,
                                                       chip_base)]
    /\ last_op' = OpRec("extract_samples", last, NoBus, NewResults, TRUE)
    /\ UNCHANGED <<adxl, lis, cmd, probe, config, dec_raw, dec_bytes, exports>>

PrintTimes == 1 .. MaxPrintTime

\* The session's life cycle: starts (some with a failing register write),
\* finishes, the firmware's blocks and late blocks.
Next ==
    \/ \E rate \in RateInputs, t \in PrintTimes, bad \in {0, 1} :
          StartMeasurements(rate, t, bad)
    \/ \E s2 \in PrintTimes : HandleStart(1, s2)
    \/ FwDeliver
    \/ StrayBlock(65535, FullLen)
    \/ \E t \in PrintTimes, fin \in {"none", "delivered"},
          k \in PartialSamples : FinishMeasurements(t, 0, fin, k)

InitAdxl == Init /\ config_chip = "adxl345"

Spec == InitAdxl /\ [][Next]_vars


\* Sessions of a healthy chip in which the firmware numbers its blocks from
\* 0 and any run of them may be lost in transit; a block with sequence
\* field 0 may reach the handler again.
NextSeq ==
    \/ StartMeasurements(0, 1, 0)
    \/ FwDeliver
    \/ \E k \in LossRuns : FwLose(k)
    \/ StrayBlock(0, FullLen)
    \/ \E lc \in 0 .. MaxLimitCount, fin \in {"none", "delivered", "lost"},
          k \in PartialSamples : FinishMeasurements(1, lc, fin, k)

SpecSeq == InitAdxl /\ [][NextSeq]_vars

\* Sessions of a healthy chip whose handler is given blocks with arbitrary
\* sequence fields and payload lengths.
NextBlocks ==
    \/ \E bad \in {0, 1} : StartMeasurements(0, 1, bad)
    \/ FwDeliver
    \/ \E sq \in StraySeqs, len \in StrayLens : StrayBlock(sq, len)
    \/ \E lc \in 0 .. MaxLimitCount, fin \in {"none", "delivered"},
          k \in PartialSamples : FinishMeasurements(1, lc, fin, k)

SpecBlocks == InitAdxl /\ [][NextBlocks]_vars

\* Starts of both chips with every register write that may fail and chips
\* whose identity may be wrong.
NextStart ==
    \/ \E rate \in RateInputs, bad \in BadWrites :
          StartMeasurements(rate, 1, bad)
    \/ HandleStart(2, 2)
    \/ StrayBlock(65535, FullLen)
    \/ FinishMeasurements(2, 0, "delivered", 3)
    \/ \E id \in DevIds : ChipChange(id)
    \/ \E bad \in 0 .. 3 : LisStart(bad)
    \/ \E bad \in 0 .. 1 : LisFinish(bad)
    \/ LisData
    \/ \E id \in LisDevIds : LisChipChange(id)

SpecStart == Init /\ [][NextStart]_vars

\* The g-code commands with valid and invalid arguments, on a chip some of
\* whose register writes fail, with the firmware's blocks.
NextCmd ==
    \/ \E has_rate \in BOOLEAN, rate \in CmdRates, name_ok \in BOOLEAN,
          bad \in {0, 1}, fin \in {"none", "delivered"}, k \in PartialSamples :
          CmdMeasure(has_rate, rate, name_ok, 1, bad, 0, fin, k)
    \/ \E bad \in {0, 1} : CmdQueryBegin(1, bad)
    \/ \E d \in PauseDelays, fin \in {"none", "delivered"},
          k \in PartialSamples : QueryWake(d, 2, 0, fin, k)
    \/ FwDeliver
    \/ \E len \in StrayLens : StrayBlock(0, len)
    \/ \E i \in 1 .. MaxCmds, io_ok \in BOOLEAN : ExportEnd(i, io_ok)

SpecCmd == InitAdxl /\ [][NextCmd]_vars

\* Calibrations of the probe: invocations, the deferred evaluations with
\* samples on either side of the tolerances, a bus whose writes may fail
\* and a chip that may be replaced.
NextCal ==
    \/ \E retries \in RetryBudgets, bad \in CalBad : Calibrate(retries, 1, bad)
    \/ \E mean \in SampleMeans, noise \in Noises, bad \in CalBad,
          fin \in {"none", "delivered"}, k \in PartialSamples :
          OffsetAxes(mean, noise, 1, bad, 0, fin, k)
    \/ FwDeliver
    \/ \E id \in DevIds : ChipChange(id)

SpecCal == InitAdxl /\ [][NextCal]_vars

\* The state after construction from a section with any axes_map option.
InitAxes ==
    /\ InitCommon
    /\ config_chip = "adxl345"
    /\ dec_raw = <<>>
    /\ dec_bytes = <<0, 0>>
    /\ inverted = FALSE
    /\ axes_cfg \in AxesConfigs
    /\ axes_map = read_axes_map(axes_cfg).axes_map
    /\ config_err = read_axes_map(axes_cfg).err

\* A calibration of a driver that was constructed, on a healthy bus.
NextAxes ==
    \/ Calibrate(DefaultRetries, 1, 0)
    \/ \E mean \in SampleMeans :
          OffsetAxes(mean, TAP_THRESH, 1, 0, 0, "none", 0)
    \/ FwDeliver

SpecAxes == InitAxes /\ [][NextAxes]_vars

\* The state after construction, with a batch of blocks for the decoder.
InitDecode ==
    /\ InitCommon
    /\ inverted = FALSE
    /\ axes_cfg = DefaultAxes
    /\ axes_map = read_axes_map(DefaultAxes).axes_map
    /\ config_err = "none"
    /\ dec_raw \in {Spaced(b, step) : b \in DecBatches, step \in SeqSteps}
    /\ dec_bytes = <<0, 0>>

\* Either driver decodes the batch.
NextDecode ==
    \/ \E lost \in LostAtEnd, t \in DecTimes : DecodeSamples(lost, t[1], t[2])
    \/ \E last \in {0, SEQ_MODULUS} : ExtractSamples(last, 0)

SpecDecode == InitDecode /\ [][NextDecode]_vars

\* The LIS2DW after construction, with a batch of blocks pulled from its
\* bulk queue.
InitTicks ==
    /\ InitCommon
    /\ config_chip = "lis2dw"
    /\ inverted = FALSE
    /\ axes_cfg = DefaultAxes
    /\ axes_map = read_axes_map(DefaultAxes).axes_map
    /\ config_err = "none"
    /\ dec_raw \in LisBatches
    /\ dec_bytes = <<0, 0>>

\* The regression-mode decoder on the batch, for every last_sequence and
\* chip_base.
NextTicks ==
    \E last \in LastSequences, chip_base \in ChipBases :
       ExtractSamples(last, chip_base)

SpecTicks == InitTicks /\ [][NextTicks]_vars

\* The state after construction, with the two bytes of an axis.
InitBytes ==
    /\ InitCommon
    /\ inverted = FALSE
    /\ axes_cfg = DefaultAxes
    /\ axes_map = read_axes_map(DefaultAxes).axes_map
    /\ config_err = "none"
    /\ dec_raw = <<>>
    /\ dec_bytes \in Bytes \X Bytes

\* Either driver merges the two bytes.
NextBytes ==
    \/ DecodeAxis
    \/ ExtractAxis

SpecBytes == InitBytes /\ [][NextBytes]_vars

\* The batch cycles of the LIS2DW between its starts and stops, with blocks
\* of every length queued in between.
NextBatch ==
    \/ \E bad \in 0 .. 1 : LisStart(bad)
    \/ \E bad \in 0 .. 1 : LisFinish(bad)
    \/ LisData
    \/ \E n \in 0 .. MaxLisQueue, limit_count \in 0 .. MaxLimitCount :
          \E lens \in [1 .. n -> LisLens] : ProcessBatch(lens, limit_count)

SpecBatch == Init /\ [][NextBatch]_vars

\* Probing moves around calibrations with the default budget on a bus
\* whose writes may fail.
NextProbe ==
    \/ \E bad \in {0, 1} : Calibrate(DefaultRetries, 1, bad)
    \/ \E mean \in SampleMeans, bad \in {0, 1} :
          OffsetAxes(mean, TAP_THRESH, 1, bad, 0, "none", 0)
    \/ FwDeliver
    \/ \E bad \in {0, 1}, taps \in TapCounts : ProbePrepare(bad, taps)
    \/ \E bad \in {0, 1}, taps \in TapCounts : ProbeFinish(bad, taps)

SpecProbe == InitAdxl /\ [][NextProbe]_vars

\* The query and the debug commands among streaming sessions and the
\* firmware's blocks, on a bus where a debug write may fail.
NextDebug ==
    \/ \E fin \in {"none", "delivered"}, k \in PartialSamples :
          CmdMeasure(FALSE, 0, TRUE, 1, 0, 0, fin, k)
    \/ CmdQueryBegin(1, 0)
    \/ \E d \in PauseDelays, fin \in {"none", "delivered"},
          k \in PartialSamples : QueryWake(d, 2, 0, fin, k)
    \/ FwDeliver
    \/ \E reg \in DebugRegs : CmdDebugRead(reg)
    \/ \E reg \in DebugRegs, val \in DebugVals, bad \in {0, 1} :
          CmdDebugWrite(reg, val, bad)

SpecDebug == InitAdxl /\ [][NextDebug]_vars

\* Calibrations and probing moves on a healthy bus, interleaved with the
\* user's ACCELEROMETER_MEASURE commands and the firmware's blocks.
NextMix ==
    \/ Calibrate(DefaultRetries, 1, 0)
    \/ \E mean \in SampleMeans, fin \in {"none", "delivered"},
          k \in PartialSamples :
          OffsetAxes(mean, TAP_THRESH, 1, 0, 0, fin, k)
    \/ FwDeliver
    \/ \E fin \in {"none", "delivered"}, k \in PartialSamples :
          CmdMeasure(FALSE, 0, TRUE, 1, 0, 0, fin, k)
    \/ \E taps \in TapCounts : ProbePrepare(0, taps)
    \/ \E taps \in TapCounts : ProbeFinish(0, taps)

SpecMix == InitAdxl /\ [][NextMix]_vars


-----------------------------------------------------------------------------
(* Claims about the measurement session *)

\* C1: the session is Measuring (query_rate > 0) exactly from a successful
\* start until the next finish and Idle otherwise, and the start and stop
\* commands sent to the firmware strictly alternate, beginning with a start.
C1_SessionFollowsCommands ==
    /\ is_measuring <=> fw_running
    /\ \A i \in 1 .. Len(sent_cmds) :
          sent_cmds[i] = IF i % 2 = 1 THEN "start" ELSE "stop"
    /\ last_op.name = "start" =>
          (is_measuring <=> (last_op.pre.measuring \/ last_op.err = "none"))
    /\ last_op.name = "finish" => ~is_measuring
    /\ last_op.name \notin {"start", "finish"} =>
          (is_measuring <=> last_op.pre.measuring)

\* a block arrives in the second session of a run
C1_Witness ==
    /\ Len(sent_cmds) = 3
    /\ is_measuring
    /\ last_op.name = "data"

\* C2: start_measurements while Measuring changes nothing: buffer,
\* last_sequence, anchors, query rate and last_tx_time stay, no register is
\* read or written and no start command is sent, whatever rate is asked for.
C2_StartWhileMeasuringIsNoop ==
    [][(last_op'.name = "start" /\ is_measuring) =>
          /\ UNCHANGED <<session, regs, sent_cmds>>
          /\ last_op'.spi = <<>>
          /\ last_op'.cmds = <<>>
          /\ last_op'.err = "none"]_vars

\* a start asking for rate 25 was made while a session at the configured
\* rate held blocks and anchors reported by the firmware
C2_Witness ==
    /\ last_op.name = "start"
    /\ last_op.pre.measuring
    /\ last_op.arg = 25
    /\ query_rate = DataRate
    /\ raw_samples # <<>>
    /\ last_sequence > 0
    /\ samples_start2 # last_tx_time

\* C3: finish_measurements while Idle returns an empty result (no samples,
\* drops = 0, overflows = 0), sends no stop command and leaves the session
\* state, the buffer and the sequence state unchanged.
C3_FinishWhileIdleIsEmpty ==
    [][(last_op'.name = "finish" /\ ~is_measuring) =>
          /\ last_op'.returned
          /\ last_op'.err = "none"
          /\ decode_samples_count(last_op'.res) = 0
          /\ decode_samples_err(last_op'.res) = "none"
          /\ last_op'.res.drops = 0
          /\ last_op'.res.overflows = 0
          /\ last_op'.cmds = <<>>
          /\ UNCHANGED <<session, regs, sent_cmds>>]_vars

\* a finish was made while Idle with a late block in the buffer
C3_Witness ==
    /\ last_op.name = "finish"
    /\ ~last_op.pre.measuring
    /\ raw_samples # <<>>
    /\ last_sequence > 0
    /\ Len(sent_cmds) = 2

-----------------------------------------------------------------------------
(* Claims about the sequence numbers and the buffer *)

\* A step that is a successful start: the one operation that resets the
\* session.
StartedStep == last_op'.name = "start" /\ last_op'.cmds # <<>>

\* C4: from a reset session, while the true block counts of the arrivals
\* never decrease and lie less than 65536 above the previous one (the reset
\* value 0 before the first), the extended sequence the handler stores
\* equals the true block count of the arrival, and it never decreases.
C4_ExtendedSequenceIsTrueCount ==
    /\ [](mono_ok => last_sequence = true_last)
    /\ [][(mono_ok' /\ ~StartedStep) => last_sequence' >= last_sequence]_vars

\* the block numbered 65536, whose 16-bit field wrapped to 0, was handled
C4_Witness ==
    /\ mono_ok
    /\ last_op.name = "data"
    /\ last_op.arg = 0
    /\ last_sequence = SEQ_MODULUS

\* C5: last_sequence is updated on every block, stored or not, and never
\* decreases across block arrivals, finishes and failed starts; only a
\* successful start lowers it, to 0.
C5_LastSequenceNeverRegresses ==
    [][IF StartedStep
       THEN last_sequence' = 0
       ELSE /\ last_sequence' >= last_sequence
            /\ last_op'.name = "data" =>
                  /\ last_sequence' % SEQ_MODULUS = last_op'.arg
                  /\ last_sequence' - last_sequence < SEQ_MODULUS]_vars

\* a block arrived while Idle with the buffer full: it was not stored, and
\* last_sequence moved past the last stored block, beyond a wraparound
C5_Witness ==
    /\ last_op.name = "data"
    /\ ~is_measuring
    /\ Len(raw_samples) = MaxRawSamples
    /\ last_sequence > raw_samples[Len(raw_samples)].seq
    /\ last_sequence > SEQ_MODULUS

\* C6: the buffer never holds more blocks than the cap, and a block arriving
\* when it holds the cap is discarded without an error, the buffer staying
\* as it was.
C6_BufferNeverExceedsCap ==
    /\ [](Len(raw_samples) <= MaxRawSamples)
    /\ [][(last_op'.name = "data" /\ Len(raw_samples) = MaxRawSamples) =>
             /\ raw_samples' = raw_samples
             /\ last_op'.err = "none"]_vars

\* a block arrived while Measuring with the buffer at the cap
C6_Witness ==
    /\ last_op.name = "data"
    /\ is_measuring
    /\ Len(raw_samples) = MaxRawSamples
    /\ last_sequence # raw_samples[Len(raw_samples)].seq

-----------------------------------------------------------------------------
(* Claims about the result of a finish *)

FinishedSession == last_op.name = "finish" /\ last_op.pre.measuring

\* C7: for a session whose blocks the firmware numbered from 0 and pushed
\* before its stop response, whatever blocks were lost or discarded, the
\* result finish returns satisfies decoded samples + drops = samples pushed.
C7_EverySampleAccounted ==
    (FinishedSession /\ last_op.fw.wf /\ last_op.fw.gaps_ok
        /\ last_op.returned) =>
       decode_samples_count(last_op.res) + last_op.res.drops
          = last_op.fw.pushed

C9_OverflowPassedThrough ==
    FinishedSession => last_op.res.overflows = last_op.fw.limit_count

-----------------------------------------------------------------------------
(* Claims about the chip identity *)

\* The reads of register reg among the bus accesses spi.
ReadsOf(spi, reg) ==
    {i \in 1 .. Len(spi) : spi[i].op = "read" /\ spi[i].reg = reg}

\* C10: a start that finds a wrong byte in the identity register fails with
\* a connectivity error; it makes no bus access after the identity read that
\* fails it, sends no command to the firmware, and leaves the session as it
\* was (Idle, with its buffer, sequence and anchors); so does the start of
\* the LIS2DW, which leaves its queue and its registers as they were.
C10_WrongIdentityFailsStart ==
    [][/\ (last_op'.name = "start" /\ ~is_measuring
              /\ devid # ADXL345_DEV_ID) =>
             /\ IsConnectivityError(last_op'.err)
             /\ ~last_op'.returned
             /\ last_op'.cmds = <<>>
             /\ UNCHANGED <<session, sent_cmds>>
             /\ ~is_measuring'
             /\ Cardinality(ReadsOf(last_op'.spi, REG_DEVID)) <= 2
             /\ last_op'.err = "invalid_id" =>
                   Len(last_op'.spi) \in ReadsOf(last_op'.spi, REG_DEVID)
       /\ (last_op'.name = "lis_start" /\ lis_devid # LIS2DW_DEV_ID) =>
             /\ last_op'.err = "invalid_id"
             /\ ~last_op'.returned
             /\ last_op'.cmds = <<>>
             /\ UNCHANGED <<lis_regs, lis_queue, lis_running>>
             /\ last_op'.spi = <<[op |-> "read",
                                  reg |-> REG_LIS2DW_WHO_AM_I_ADDR,
                                  val |-> lis_devid]>>]_vars

\* a start of the ADXL345 was refused for its identity while the session
\* held blocks, a sequence and anchors of earlier activity
C10_Witness ==
    /\ last_op.name = "start"
    /\ last_op.err = "invalid_id"
    /\ devid # ADXL345_DEV_ID
    /\ raw_samples # <<>>
    /\ last_sequence > 0
    /\ samples_start2 > 1
    /\ Len(sent_cmds) = 2

-----------------------------------------------------------------------------
(* Claims about register writes *)

\* C11: in the bus accesses of every operation, each register write is
\* followed at once by a read of the same register, and a read-back that
\* differs from the byte written ends the operation there with a
\* connectivity error; a start of either chip that ends so sends no command,
\* and the ADXL345 session stays Idle as it was.
C11_WritesAreVerified ==
    [][/\ \A i \in 1 .. Len(last_op'.spi) :
             last_op'.spi[i].op = "write" =>
                /\ i < Len(last_op'.spi)
                /\ last_op'.spi[i + 1].op = "read"
                /\ last_op'.spi[i + 1].reg = last_op'.spi[i].reg
                /\ last_op'.spi[i + 1].val # last_op'.spi[i].val =>
                      /\ last_op'.err = "set_reg_failed"
                      /\ IsConnectivityError(last_op'.err)
                      /\ ~last_op'.returned
                      /\ i + 1 = Len(last_op'.spi)
       /\ (last_op'.name = "start" /\ last_op'.err = "set_reg_failed") =>
             /\ last_op'.cmds = <<>>
             /\ UNCHANGED <<session, sent_cmds>>
             /\ ~is_measuring'
       /\ (last_op'.name = "lis_start"
              /\ last_op'.err = "set_reg_failed") =>
             /\ last_op'.cmds = <<>>
             /\ UNCHANGED <<lis_queue, lis_running>>]_vars

\* the last register write of a start, FIFO_CTL = 0x80, read back wrong
\* while the session held blocks of earlier activity
C11_Witness ==
    /\ last_op.name = "start"
    /\ last_op.err = "set_reg_failed"
    /\ last_op.spi[Len(last_op.spi)].reg = REG_FIFO_CTL
    /\ last_op.spi[Len(last_op.spi) - 1].val = 128
    /\ raw_samples # <<>>
    /\ last_sequence > 0

-----------------------------------------------------------------------------
(* Claims about the g-code commands *)

\* C12: the rates accepted are 25, 50, 100, 200, 400, 800, 1600 and 3200;
\* an ACCELEROMETER_MEASURE that asks an Idle session for any other rate
\* ends with an error, having made no bus access and sent no command, and
\* leaves the session (Idle, its buffer, its sequence) and the registers as
\* they were; a rate of the set is not refused.
C12_InvalidRateRejected ==
    /\ [](DOMAIN QUERY_RATES = {25, 50, 100, 200, 400, 800, 1600, 3200})
    /\ [][(last_op'.name = "measure" /\ ~is_measuring) =>
             IF last_op'.arg \in DOMAIN QUERY_RATES
             THEN last_op'.err # "invalid_rate"
             ELSE /\ last_op'.err = "invalid_rate"
                  /\ ~last_op'.returned
                  /\ last_op'.spi = <<>>
                  /\ last_op'.cmds = <<>>
                  /\ UNCHANGED <<session, regs, sent_cmds>>
                  /\ ~is_measuring']_vars

\* RATE=30 was refused while the Idle session held a block and a sequence
\* of earlier activity
C12_Witness ==
    /\ last_op.name = "measure"
    /\ last_op.err = "invalid_rate"
    /\ last_op.arg = 30
    /\ ~is_measuring
    /\ raw_samples # <<>>
    /\ last_sequence > 0
    /\ Len(sent_cmds) = 2

\* C13: an ACCELEROMETER_QUERY whose poll window (3 s) passes with the
\* buffer still empty sends the stop command, leaves the session Idle and
\* reports a timeout error; and the session is Idle after every return of a
\* query that started it.
C13_QueryTimeoutReported ==
    [][/\ (last_op'.name = "query" /\ cmd_pc' = "none"
              /\ last_op'.err # "in_progress") => ~is_measuring'
       /\ (last_op'.name = "query" /\ cmd_pc = "query"
              /\ query_elapsed' > QueryWindow /\ raw_samples = <<>>) =>
             /\ is_measuring => sent_cmds' = Append(sent_cmds, "stop")
             /\ ~is_measuring'
             /\ last_op'.err = "timeout"]_vars

-----------------------------------------------------------------------------
(* Claims about the calibration of the probe *)

\* The step is a deferred evaluation (_offset_axes) of a calibration.
EvaluationStep == last_op'.name = "offset_axes" /\ pending # <<>>

\* The samples of the evaluation c pass both checks: four times the square
\* of the mean's length lies between the square of standard gravity
\* (96170384.2225 mm^2/s^4) and its nine-fold, and the noise is not above
\* the tap threshold.
WithinTolerance(c) ==
    LET ss == c.mean[1] * c.mean[1] + c.mean[2] * c.mean[2]
              + c.mean[3] * c.mean[3]
    IN  /\ ss >= 24042597
        /\ ss <= 216383364
        /\ c.noise <= 5000

\* C14: a calibration whose samples fail a check on every attempt aborts
\* after exactly its budget.  Every waiting evaluation is attempt number
\* budget + 1 - retries, so each retry has taken one from the budget; an
\* evaluation whose samples fail a check retries if its budget is above 0,
\* scheduling the next attempt with a budget one smaller, and aborts if it
\* is 0, which is attempt budget + 1; an abort sends no start command,
\* leaves the session Idle and schedules nothing.
C14_AbortsAfterBudget ==
    /\ [](\A i \in 1 .. Len(pending) :
             /\ pending[i].retries >= 0
             /\ pending[i].attempt = pending[i].budget + 1 - pending[i].retries)
    /\ [][EvaluationStep =>
            LET e == Head(pending)
            IN  /\ (cal_op'.outcome # "error" /\ ~WithinTolerance(cal_op')) =>
                      cal_op'.outcome = IF e.retries > 0 THEN "retry"
                                        ELSE "abort"
                /\ cal_op'.outcome = "retry" =>
                      /\ e.retries > 0
                      /\ pending' = Append(Tail(pending),
                                           [retries |-> e.retries - 1,
                                            attempt |-> e.attempt + 1,
                                            budget |-> e.budget])
                /\ cal_op'.outcome = "abort" =>
                      /\ e.retries = 0
                      /\ e.attempt = e.budget + 1
                      /\ pending' = Tail(pending)
                      /\ \A i \in 1 .. Len(last_op'.cmds) :
                            last_op'.cmds[i] # "start"
                      /\ last_op'.spi = <<>>
                      /\ ~is_measuring']_vars

C14_Witness ==
    /\ last_op.name = "offset_axes"
    /\ cal_op.outcome = "abort"
    /\ cal_op.budget = DefaultRetries
    /\ cal_op.attempt = DefaultRetries + 1
    /\ sent_cmds = <<"start", "stop", "start", "stop", "start", "stop",
                     "start", "stop">>
    /\ pending = <<>>

\* C15: the probe is marked calibrated only by an evaluation whose samples
\* pass both checks, and nothing clears the mark; when the first attempt of
\* a calibration passes both checks and no bus access fails, the probe is
\* marked calibrated, the one session the attempt started is stopped, no
\* other is started and nothing is scheduled.
C15_CalibratedOnlyWithinTolerance ==
    [][/\ calibrated' # calibrated =>
             /\ calibrated'
             /\ EvaluationStep
             /\ cal_op'.outcome = "calibrated"
             /\ WithinTolerance(cal_op')
       /\ (EvaluationStep /\ Head(pending).attempt = 1
             /\ cal_op'.outcome # "error" /\ WithinTolerance(cal_op')) =>
             /\ cal_op'.outcome = "calibrated"
             /\ calibrated'
             /\ pending' = Tail(pending)
             /\ is_measuring /\ ~is_measuring'
             /\ sent_cmds[Len(sent_cmds)] = "start"
             /\ sent_cmds' = Append(sent_cmds, "stop")]_vars

C15_Witness ==
    /\ last_op.name = "offset_axes"
    /\ cal_op.outcome = "calibrated"
    /\ cal_op.attempt = 1
    /\ cal_op.mean = <<-10400, 10401, 0>>
    /\ cal_op.noise = TAP_THRESH
    /\ calibrated
    /\ sent_cmds = <<"start", "stop">>
    /\ pending = <<>>
    /\ regs[REG_OFSX] = 68 /\ regs[REG_OFSY] = 188 /\ regs[REG_OFSZ] = 0

\* C16: whenever a calibration ends by aborting, the probe is left
\* uncalibrated, whatever calibrations ran before.
C16_AbortLeavesUncalibrated ==
    (last_op.name = "offset_axes" /\ cal_op.outcome = "abort") => ~calibrated

\* C18: only tolerance failures are retried.  A Connectivity error raised
\* in calibrate or in a deferred evaluation ends the step at the failing
\* bus access: the step schedules no evaluation and no further attempt,
\* sends no start command and does not change the calibrated mark; a retry
\* is scheduled only by an evaluation that raised nothing and whose samples
\* failed a check.
C18_ConnectivityErrorNotRetried ==
    [][/\ (last_op'.name \in {"calibrate", "offset_axes"}
             /\ IsConnectivityError(last_op'.err)) =>
             /\ ~last_op'.returned
             /\ cal_op'.outcome = "error"
             /\ pending' = IF last_op'.name = "calibrate" THEN pending
                           ELSE Tail(pending)
             /\ calibrated' = calibrated
             /\ \A i \in 1 .. Len(last_op'.cmds) : last_op'.cmds[i] # "start"
             /\ ~is_measuring'
             /\ LET last == last_op'.spi[Len(last_op'.spi)]
                IN  /\ last.op = "read"
                    /\ IF last_op'.err = "invalid_id"
                       THEN last.reg = REG_DEVID /\ last.val # ADXL345_DEV_ID
                       ELSE /\ last_op'.spi[Len(last_op'.spi) - 1].op = "write"
                            /\ last_op'.spi[Len(last_op'.spi) - 1].val
                                  # last.val
       /\ (EvaluationStep /\ cal_op'.outcome = "retry") =>
             /\ last_op'.err = "none"
             /\ ~WithinTolerance(cal_op')]_vars

C18_Witness ==
    /\ last_op.name = "offset_axes"
    /\ last_op.err = "invalid_id"
    /\ cal_op.outcome = "error"
    /\ cal_op.attempt = 2
    /\ cal_op.retries = 2
    /\ pending = <<>>
    /\ ~calibrated
    /\ sent_cmds = <<"start", "stop", "start", "stop">>

-----------------------------------------------------------------------------
(* Claims about the probe's hooks *)

\* C17: probe_prepare on an uncalibrated probe raises the error that asks
\* for a recalibration and touches nothing: no register is read or written,
\* no command is sent, and the chip's registers (the interrupt enable and
\* the power mode among them), the session and the probe's own state stay
\* as they were.
C17_UncalibratedProbeRefused ==
    [][(last_op'.name = "probe_prepare" /\ ~calibrated) =>
          /\ last_op'.err = "not_calibrated"
          /\ ~last_op'.returned
          /\ last_op'.spi = <<>>
          /\ last_op'.cmds = <<>>
          /\ UNCHANGED <<regs, session, sent_cmds, probe>>]_vars

C17_Witness ==
    /\ last_op.name = "probe_prepare"
    /\ last_op.err = "not_calibrated"
    /\ ~calibrated
    /\ is_measuring
    /\ pending # <<>>
    /\ regs[REG_INT_ENABLE] = 0
    /\ regs[REG_POWER_CTL] = 0

-----------------------------------------------------------------------------
(* Claims about the configuration *)

\* C19: for every axes_map option accepted at setup the raw axes the three
\* entries of the map read form a permutation of {0, 1, 2}; the map never
\* changes afterwards; every other option is rejected with a
\* configuration error.
C19_AxesMapIsPermutation ==
    /\ [](IF config_err = "none"
          THEN /\ Len(axes_map) = 3
               /\ {axes_map[i].pos : i \in 1 .. 3} = {0, 1, 2}
          ELSE config_err = "config_error")
    /\ [][axes_map' = axes_map]_vars

-----------------------------------------------------------------------------
(* Claims about the decoders *)

\* C20: decoding blocks whose length is not a multiple of 6 never raises:
\* either decoder returns floor(length / 6) samples for every block, for
\* every length, those below 6 included.
C20_ShortBlocksDecoded ==
    dec_out.op \in {"decode_samples", "extract_samples"} =>
       /\ dec_out.err = "none"
       /\ dec_out.count = SumSamples(dec_raw)

\* The buffer of the decoded session meets the claim's conditions: strictly
\* increasing sequence numbers, at most 8 samples a block, end2 > start2.
WellFormedBuffer ==
    /\ \A j \in 1 .. Len(dec_raw) - 1 : dec_raw[j].seq < dec_raw[j + 1].seq
    /\ \A j \in 1 .. Len(dec_raw) :
          dec_raw[j].len \div BYTES_PER_SAMPLE <= SAMPLES_PER_BLOCK
    /\ last_op.res.end2_time > last_op.res.start2_time

C24_TwosComplement ==
    dec_out.op = "axis" =>
       LET low == dec_bytes[1]
           high == dec_bytes[2]
       IN  /\ dec_out.value = low + 256 * high
                                  - (IF high >= 128 THEN 65536 ELSE 0)
           /\ dec_out.value \in -32768 .. 32767
           /\ sdata_value(low, high) = raw_xyz_value(low, high)

\* The LIS2DW's decoder has merged the bytes 0x01, 0x80 into -32767.
C24_Witness ==
    /\ dec_out.op = "axis"
    /\ dec_out.chip = "lis2dw"
    /\ dec_bytes = <<1, 128>>
    /\ dec_out.value = -32767

-----------------------------------------------------------------------------
(* Claims about the export *)

\* C21: the export runs detached.  The stop of a streaming session returns
\* with its export process still running, and starts none when the finish
\* raised; no operation of the driver waits for, or changes, an export; the
\* end of an export, failed or not, changes nothing but the export.
C21_ExportDetached ==
    [][/\ (last_op'.name = "measure" /\ last_op'.pre.measuring
             /\ last_op'.err # "invalid_name" /\ last_op' # last_op) =>
             IF last_op'.err = "none"
             THEN /\ last_op'.returned
                  /\ ~is_measuring'
                  /\ Len(exports') = Len(exports) + 1
                  /\ exports'[Len(exports')].state = "running"
                  /\ SubSeq(exports', 1, Len(exports)) = exports
             ELSE exports' = exports
       /\ (exports' # exports /\ Len(exports') = Len(exports)) =>
             /\ UNCHANGED <<adxl, lis, cmd, probe, config>>
             /\ last_op'.name = "export_end"
             /\ \A i \in 1 .. Len(exports) :
                   exports'[i] # exports[i] =>
                      /\ exports[i].state = "running"
                      /\ exports'[i].state \in {"done", "failed"}]_vars

C21_Witness ==
    /\ Len(exports) = 1
    /\ exports[1].state = "failed"
    /\ is_measuring
    /\ raw_samples # <<>>
    /\ last_op.name = "data"
    /\ sent_cmds = <<"start", "stop", "start">>


-----------------------------------------------------------------------------
(* Claims about the batch cycle of the LIS2DW *)

\* A step that is a batch cycle of the LIS2DW.
BatchStep == last_op'.name = "process_batch" /\ last_op' # last_op

\* C22: every batch cycle first refreshes the clock synchronizer from a
\* status query and then drains the block queue; when no block is pending,
\* or no sample is decoded from the pending blocks, it returns an empty
\* result and publishes nothing; when samples are decoded it publishes
\* them with the error counter and the overflow counter of the status
\* answer.
C22_BatchCycle ==
    [][BatchStep =>
          LET raw == lis_batch'.pulled
              decoded == \E i \in 1 .. Len(raw) :
                            raw[i].len >= LIS_BYTES_PER_SAMPLE
          IN  /\ last_op'.cmds = <<"status">>
              /\ SubSeq(lis_batch'.steps, 1, 2) = <<"status", "pull">>
              /\ Len(raw) = lis_queue
              /\ lis_queue' = 0
              /\ ~decoded => /\ lis_batch'.err = "none"
                             /\ last_op'.returned
                             /\ ~lis_batch'.published
              /\ decoded => /\ lis_batch'.err = "none"
                            /\ lis_batch'.published
                            /\ lis_batch'.data > 0
                            /\ lis_batch'.errors = 0
                            /\ lis_batch'.overflows =
                                  last_op'.fw.limit_count]_vars


-----------------------------------------------------------------------------
(* Claims about the order of a calibration attempt *)

\* The writes to the offset registers among the bus accesses spi, in order.
OfsWrites(spi) ==
    SelectSeq(spi, LAMBDA a : a.op = "write"
                              /\ a.reg \in {REG_OFSX, REG_OFSY, REG_OFSZ})

\* The positions in spi of the writes to the registers rs.
WritesAt(spi, rs) ==
    {k \in 1 .. Len(spi) : spi[k].op = "write" /\ spi[k].reg \in rs}

\* A step in which calibrate ran to its end: called from outside, or by the
\* evaluation that retries.
CalibrateStep ==
    /\ last_op' # last_op
    /\ \/ last_op'.name = "calibrate" /\ last_op'.err = "none"
       \/ last_op'.name = "offset_axes" /\ cal_op'.outcome = "retry"

\* C25: every calibration attempt writes zero to the three offset
\* registers, then starts the session, and its evaluation first finishes
\* the session; a successful evaluation then writes every offset register
\* exactly once, the value of each logical axis to the register its source
\* index selects, and marks the probe calibrated; an evaluation that
\* rejects the measurement writes no offset register (but for the zeroing
\* of the attempt it starts).
C25_CalibrationOrder ==
    [][/\ CalibrateStep =>
             LET spi == last_op'.spi
                 zeroing == WritesAt(spi, {REG_OFSX, REG_OFSY, REG_OFSZ})
                 starting == WritesAt(spi, {REG_FIFO_CTL, REG_BW_RATE})
             IN  /\ [k \in 1 .. 3 |-> OfsWrites(spi)[k].reg] = ofs_regs
                 /\ Len(OfsWrites(spi)) = 3
                 /\ \A k \in zeroing : spi[k].val = 0
                 /\ starting # {}
                 /\ \A k \in zeroing, l \in starting : k < l
                 /\ last_op'.cmds[Len(last_op'.cmds)] = "start"
                 /\ is_measuring'
                 /\ pending' # <<>>
       /\ EvaluationStep =>
             LET spi == last_op'.spi
                 w == OfsWrites(spi)
             IN  /\ last_op'.pre.measuring
                 /\ Head(last_op'.cmds) = "stop"
                 /\ cal_op'.outcome = "calibrated" =>
                       /\ Len(w) = 3
                       /\ \A r \in {REG_OFSX, REG_OFSY, REG_OFSZ} :
                             Cardinality(WritesAt(spi, {r})) = 1
                       /\ \A axis \in 1 .. 3 :
                             w[axis].reg = ofs_regs[axes_map[axis].pos + 1]
                       /\ calibrated'
                 /\ cal_op'.outcome = "abort" => w = <<>>
                 /\ cal_op'.outcome # "calibrated" => calibrated' = calibrated
                 /\ cal_op'.outcome \in {"abort", "retry"} =>
                       regs'[REG_OFSX] = 0 /\ regs'[REG_OFSY] = 0
                          /\ regs'[REG_OFSZ] = 0]_vars


-----------------------------------------------------------------------------
(* Claims about the end of a session *)

\* C26: a finish_measurements performed while Measuring, answered by the
\* firmware, returns a result and raises nothing, whatever the buffer holds
\* (nothing included) and whatever final sequence is reported (0 included);
\* afterwards the session is Idle and its buffer is empty.
C26_FinishNeverRaises ==
    (last_op.name = "finish" /\ last_op.pre.measuring) =>
       /\ last_op.err = "none"
       /\ last_op.returned
       /\ ~is_measuring
       /\ raw_samples = <<>>

\* A step in which a start_measurements that began Idle went through.
SuccessfulStart ==
    /\ last_op' # last_op
    /\ last_op'.name = "start"
    /\ ~last_op'.pre.measuring
    /\ last_op'.err = "none"

\* C27: a successful start empties the buffer and sets last_sequence to 0
\* and both start anchors to the start time; a session begins in no other
\* way; while it lasts its buffer only grows, by the blocks that arrive;
\* and the result of its finish holds that buffer (with the block that
\* arrives during the finish), while a finish performed Idle returns an
\* empty result.  So no block that arrived in an earlier session or while
\* Idle is in a later session's result.
C27_StartResetsSession ==
    [][/\ SuccessfulStart =>
             /\ is_measuring'
             /\ raw_samples' = <<>>
             /\ last_sequence' = 0
             /\ samples_start1' = last_tx_time'
             /\ samples_start2' = last_tx_time'
       /\ (~is_measuring /\ is_measuring') => SuccessfulStart
       /\ (is_measuring /\ is_measuring' /\ raw_samples' # raw_samples) =>
             /\ last_op'.name = "data"
             /\ Len(raw_samples') = Len(raw_samples) + 1
             /\ SubSeq(raw_samples', 1, Len(raw_samples)) = raw_samples
       /\ (last_op'.name = "finish" /\ last_op' # last_op) =>
             LET got == last_op'.res.raw_samples
             IN  IF last_op'.pre.measuring
                 THEN \/ got = <<>>
                      \/ got = raw_samples
                      \/ /\ Len(got) = Len(raw_samples) + 1
                         /\ SubSeq(got, 1, Len(raw_samples)) = raw_samples
                 ELSE got = <<>> /\ ~last_op'.res.has_raw]_vars

\* A start has gone through on a buffer that held blocks which arrived
\* since the finish of the session before.
C27_Witness ==
    /\ last_op.name = "start"
    /\ last_op.err = "none"
    /\ ~last_op.pre.measuring
    /\ last_op.pre.buffered > 0
    /\ raw_samples = <<>>
    /\ sent_cmds = <<"start", "stop", "start">>

-----------------------------------------------------------------------------
(* Claims about calibrations among the user's commands *)

\* C28: whenever the deferred evaluation of a calibration attempt runs, in
\* any interleaving of calibrations, the user's starts and stops and the
\* arrivals of blocks, the session is Measuring and the finish the
\* evaluation performs yields at least one decoded sample, so the means
\* and the peak deviations are never computed over no sample.
C28_EvaluationHasSamples ==
    [][EvaluationStep =>
          /\ last_op'.pre.measuring
          /\ last_op'.res.has_raw
          /\ SumSamples(last_op'.res.raw_samples) > 0
          /\ last_op'.err \notin {"AttributeError", "ZeroDivisionError"}]_vars

\* The session that is Measuring was started by ACCELEROMETER_MEASURE: the
\* command has just started it, or no evaluation of a calibration is due
\* (calibrate registers one with every session it starts, and the
\* evaluation finishes the session before anything else).
UserSession ==
    /\ is_measuring
    /\ \/ pending = <<>>
       \/ /\ last_op.name = "measure"
          /\ ~last_op.pre.measuring
          /\ last_op.err = "none"

\* A step of the probe: a calibration, its evaluation, or a hook of a
\* probing move.
ProbeStep ==
    /\ last_op' # last_op
    /\ last_op'.name \in {"calibrate", "offset_axes", "probe_prepare",
                          "probe_finish"}

\* C29: a session started by ACCELEROMETER_MEASURE stays Measuring until
\* the command is issued again: no calibration, no evaluation of one and
\* no hook of a probing move finishes it, discards its blocks, or writes
\* standby to the power-control register while it is Measuring.
C29_UserSessionUndisturbed ==
    [][(UserSession /\ ProbeStep) =>
          /\ is_measuring'
          /\ raw_samples' = raw_samples
          /\ last_sequence' = last_sequence
          /\ last_op'.cmds = <<>>
          /\ \A k \in 1 .. Len(last_op'.spi) :
                ~(/\ last_op'.spi[k].op = "write"
                  /\ last_op'.spi[k].reg = REG_POWER_CTL
                  /\ last_op'.spi[k].val = 0)]_vars

-----------------------------------------------------------------------------
(* Claims about the commands refused while Measuring *)

\* A step in which ACCELEROMETER_QUERY, ADXL345_DEBUG_READ or
\* ADXL345_DEBUG_WRITE is issued.
QueryOrDebugStep ==
    /\ last_op' # last_op
    /\ cmd_pc = "none"
    /\ last_op'.name \in {"query", "debug_read", "debug_write"}

\* C30: while the session is Measuring, ACCELEROMETER_QUERY and the debug
\* register read and write commands are each refused with an error before
\* any register access or firmware command; the session stays Measuring
\* and its buffer, sequence, anchors and the registers are unchanged.
C30_RefusedWhileMeasuring ==
    [][(is_measuring /\ QueryOrDebugStep) =>
          /\ last_op'.err = "in_progress"
          /\ ~last_op'.returned
          /\ last_op'.spi = <<>>
          /\ last_op'.cmds = <<>>
          /\ is_measuring'
          /\ UNCHANGED <<session, regs, sent_cmds, cmd_pc>>]_vars

\* ADXL345_DEBUG_WRITE was refused while the session was Measuring with a
\* block in its buffer.
C30_Witness ==
    /\ last_op.name = "debug_write"
    /\ last_op.err = "in_progress"
    /\ last_op.pre.measuring
    /\ is_measuring
    /\ raw_samples # <<>>


\* The 16-bit window around last: the sequence numbers a block may have.
InSeqWindow(seq, last) == -32768 <= seq - last /\ seq - last <= 32767

\* C31: in the regression-mode decoder every sample of every block carries
\* the sequence number seq that is congruent to the block's 16-bit field
\* modulo 65536 and lies within -32768 .. 32767 of last_sequence, no other
\* integer congruent to the field lies in that window, and sample i of the
\* block is at tick seq * 8 + i, that is cdiff ticks after chip_base.
C31_SequenceReconstructed ==
    (dec_out.op = "extract_samples" /\ dec_out.err = "none") =>
        \A k \in 1 .. Len(dec_out.samples) :
            LET s == dec_out.samples[k]
            IN  /\ (s.seq - s.field) % SEQ_MODULUS = 0
                /\ InSeqWindow(s.seq, last_op.arg)
                /\ \A m \in -2 .. 2 :
                      InSeqWindow(s.seq + m * SEQ_MODULUS, last_op.arg)
                          => m = 0
                /\ s.cdiff + dec_out.chip_base
                      = s.seq * LIS_SAMPLES_PER_BLOCK + s.i

\* A batch decoded after the 16-bit field wrapped, with one block behind
\* last_sequence across the wrap and one ahead of it, and a chip_base
\* other than 0.
C31_Witness ==
    /\ dec_out.op = "extract_samples"
    /\ dec_out.err = "none"
    /\ last_op.arg = 65536
    /\ dec_out.chip_base = 5
    /\ \E k \in 1 .. Len(dec_out.samples) :
          dec_out.samples[k].field = 65535 /\ dec_out.samples[k].seq = 65535
    /\ \E k \in 1 .. Len(dec_out.samples) :
          /\ dec_out.samples[k].field = 1
          /\ dec_out.samples[k].seq = 65537
          /\ dec_out.samples[k].i = 7
          /\ dec_out.samples[k].cdiff = 65537 * 8 + 7 - 5

====
